---- MODULE Spec2Model ----
(***************************************************************************)
(* A model of dlm, the digital-library manager: the Match Scorer           *)
(* (fuzzy_match) and the Search Engine (search_catalog) of                 *)
(* src/src/dlm/cli.py, over the catalog that src/src/dlm/data.py loads.    *)
(*                                                                         *)
(* Strings are sequences of one-character strings (<<"a","b">> is "ab").   *)
(* An optional argument (None or a string) is a sequence of length at most *)
(* one: <<>> is None and <<s>> is the string s.  A score is a rational     *)
(* <<n, d>> in lowest terms; Python computes 2.0*M/T in doubles, and for   *)
(* the lengths modelled here distinct rationals are distinct doubles and   *)
(* 2M/T >= 0.6 holds of the doubles exactly when it holds of the rationals.*)
(***************************************************************************)
EXTENDS Integers, Sequences, FiniteSets, TLC

VARIABLES
    catalogFile,   \* the "catalog" list stored in catalog.json
    pc,            \* what runs next ("main", "fuzzy_match") or has run ("searched", "scored")
    query,         \* search_catalog's arguments, as main() parsed them
    field,
    file_type,
    ddc,
    fuzzy,
    catalog,       \* the list load_catalog() returned, after the search loop
    results,       \* what search_catalog returned
    sq,            \* fuzzy_match's arguments and its return value
    st,
    sscore,
    progressFile,  \* reading_progress.json: missing, a JSON map, cut to zero bytes, or unparseable
    libraryFiles,  \* the ids of the entries whose file exists under LIBRARY_ROOT
    catalogExists, \* catalog.json exists
    diag,          \* per process instance: what its latest load_catalog() printed
    firstCatalog,  \* history: per process instance, the list of its first load_catalog()
    today,         \* the date datetime.now() gives
    ppc,           \* per process instance: where it is in main()
    mode,          \* per process instance: the command line's mode
    setPage,       \* per process instance: the page of --set-page / --update-page, or None
    titleQuery,    \* per process instance: the title of --update-page
    found,         \* per process instance: the results of its search_catalog call
    sel,           \* per process instance: the id of the selected entry (0: none yet)
    shown,         \* per process instance: the progress_data main() loaded for the prompt
    local,         \* per process instance: the progress_data being modified and saved
    ret,           \* per process instance: what open_file returned ("-": not called)
    out,           \* per process instance: the last message printed, and the ids it lists
    displayed,     \* the lines display_results printed
    cancelled,     \* history: the user left the last prompt without a selection
    atCall,        \* history: the progress file when the prompt / open_file / command began
    atReload,      \* history: the progress file when the current mutation began
    interfered,    \* history: another instance saved since this one's mutation began
    lastPage,      \* history: per id, the page of the latest operation that gave one
    lastDate,      \* history: per id, the date of the latest operation
    pageArg,       \* per process instance: the text given as the page on the command line
    choice,        \* search.py: what the user typed last at "Enter number to open file"
    legacyOpened,  \* search.py: the ids of the entries its open_file launched a viewer for
    entries,       \* run_fzf_search: the candidate list it is given
    fzf_lines,     \* run_fzf_search: the lines handed to fzf
    picked,        \* run_fzf_search: the position of the line fzf printed (0: none)
    returned,      \* run_fzf_search: its return value, an entry or None
    fpc,           \* run_fzf_search: "call", "fzf" (fzf is running), "returned", or "off"
    library,       \* generate_catalog.py: the files under LIBRARY_ROOT
    scanOrder,     \* the order in which os.walk meets the subdirectories of a category
    generated,     \* the catalog of the latest run of generate_catalog, or None
    previous,      \* history: the catalog of the run before the latest, or None
    listArg,       \* filter_catalog: the list object its caller passed, as it is now
    listGiven,     \* history: what that list held when it was passed
    options,       \* filter_catalog: its ddc, file_type, recent and in_progress arguments
    fprogress,     \* filter_catalog: reading_progress.json as load_progress() finds it
    filtered,      \* filter_catalog: the list it returned
    flpc           \* filter_catalog: "call", "returned", "raised", or "off"

searchVars == <<catalogFile, pc, query, field, file_type, ddc, fuzzy, catalog,
                results, sq, st, sscore>>

progressVars == <<progressFile, libraryFiles, catalogExists, diag, firstCatalog,
                  today, ppc, mode, setPage,
                  titleQuery, found, sel, shown, local, ret, out, displayed,
                  cancelled, atCall,
                  atReload, interfered, lastPage, lastDate>>

inputVars == <<pageArg, choice, legacyOpened>>

fzfVars == <<entries, fzf_lines, picked, returned, fpc>>

generateVars == <<library, scanOrder, generated, previous>>

filterVars == <<listArg, listGiven, options, fprogress, filtered, flpc>>

vars == <<searchVars, progressVars, inputVars, fzfVars, generateVars, filterVars>>

----------------------------------------------------------------------------
(* Bounds of the model *)

\* the most files the library holds before one is added
MaxFiles == 2

\* the longest candidate list run_fzf_search is given
MaxCands == 3

\* the longest text typed as a page argument or at search.py's prompt
MaxInput == 2

\* the longest catalog the search is run on
MaxCatalog == 3

\* the longest query and text the scorer is run on
MaxLen == 3

----------------------------------------------------------------------------
(* Strings, optional values, scores *)

None == <<>>

Some(s) == <<s>>

\* Python's truth value of an optional string: None and "" are false.
Truthy(opt) == opt # None /\ opt[1] # <<>>

\* str.lower() on one character
LowerChar(c) ==
    CASE c = "A" -> "a"
      [] c = "B" -> "b"
      [] c = "C" -> "c"
      [] c = "P" -> "p"
      [] c = "D" -> "d"
      [] c = "F" -> "f"
      [] c = "S" -> "s"
      [] c = "Q" -> "q"
      [] OTHER -> c

\* str.lower()
Lower(s) == [i \in 1..Len(s) |-> LowerChar(s[i])]

\* Python's "q in t" on strings
IsSubstring(q, t) ==
    \E i \in 0..(Len(t) - Len(q)) : \A k \in 1..Len(q) : t[i + k] = q[k]

\* str.startswith
StartsWith(s, p) ==
    /\ Len(p) <= Len(s)
    /\ \A k \in 1..Len(p) : s[k] = p[k]

RECURSIVE GCD(_, _)
GCD(a, b) == IF b = 0 THEN a ELSE GCD(b, a % b)

\* the float n/d, kept as a fraction in lowest terms
Frac(n, d) == <<n \div GCD(n, d), d \div GCD(n, d)>>

Zero == <<0, 1>>

One == <<1, 1>>

\* the literal 0.6 of the fuzzy threshold
FuzzyThreshold == <<3, 5>>

ScoreGE(x, y) == x[1] * y[2] >= y[1] * x[2]

ScoreMax(x, y) == IF ScoreGE(x, y) THEN x ELSE y

\* max() of a non-empty list of scores
RECURSIVE MaxOf(_)
MaxOf(scores) ==
    IF Len(scores) = 1 THEN scores[1]
    ELSE ScoreMax(scores[1], MaxOf(Tail(scores)))

----------------------------------------------------------------------------
(* Match Scorer: fuzzy_match and difflib.SequenceMatcher(None, a, b).ratio() *)

\* The blocks a[i:i+k] == b[j:j+k] (0-based, k >= 1) inside a[alo:ahi], b[blo:bhi].
MatchingBlocks(a, alo, ahi, b, blo, bhi) ==
    {blk \in (alo..(ahi - 1)) \X (blo..(bhi - 1)) \X (1..(ahi - alo)) :
        /\ blk[1] + blk[3] <= ahi
        /\ blk[2] + blk[3] <= bhi
        /\ \A n \in 1..blk[3] : a[blk[1] + n] = b[blk[2] + n]}

\* find_longest_match with no junk: the longest block, of those the one that
\* starts earliest in a, of those the one that starts earliest in b.
FindLongestMatch(a, alo, ahi, b, blo, bhi) ==
    LET blocks == MatchingBlocks(a, alo, ahi, b, blo, bhi)
        Better(x, y) ==
            \/ x[3] > y[3]
            \/ x[3] = y[3] /\ x[1] < y[1]
            \/ x[3] = y[3] /\ x[1] = y[1] /\ x[2] <= y[2]
    IN  IF blocks = {} THEN <<alo, blo, 0>>
        ELSE CHOOSE x \in blocks : \A y \in blocks : Better(x, y)

\* get_matching_blocks: the sizes of the longest block and, recursively, of
\* the longest blocks to its left and to its right, summed.
RECURSIVE MatchedChars(_, _, _, _, _, _)
MatchedChars(a, alo, ahi, b, blo, bhi) ==
    LET m == FindLongestMatch(a, alo, ahi, b, blo, bhi)
    IN  IF m[3] = 0 THEN 0
        ELSE m[3]
             + MatchedChars(a, alo, m[1], b, blo, m[2])
             + MatchedChars(a, m[1] + m[3], ahi, b, m[2] + m[3], bhi)

\* mutant: the matches over the length of the longer string
RatioOverLonger(a, b) ==
    IF Len(a) + Len(b) = 0 THEN One
    ELSE Frac(MatchedChars(a, 0, Len(a), b, 0, Len(b)),
              IF Len(a) >= Len(b) THEN Len(a) ELSE Len(b))

\* ratio(): 2.0 * matches / (len(a) + len(b)), and 1.0 when both are empty
Ratio(a, b) ==
    IF Len(a) + Len(b) = 0 THEN One
    ELSE Frac(2 * MatchedChars(a, 0, Len(a), b, 0, Len(b)), Len(a) + Len(b))

\* mutant: the substring test on the strings as given, not lowercased
fuzzy_match_case_sensitive(q, text) ==
    IF IsSubstring(q, text) THEN One ELSE Ratio(Lower(q), Lower(text))

\* mutant: the substring test the wrong way round (text in query)
fuzzy_match_reversed(q, text) ==
    IF IsSubstring(Lower(text), Lower(q)) THEN One
    ELSE Ratio(Lower(q), Lower(text))

fuzzy_match(q, text) ==
    LET query_lower == Lower(q)
        text_lower == Lower(text)
    IN  IF IsSubstring(query_lower, text_lower) THEN One
        ELSE Ratio(query_lower, text_lower)

----------------------------------------------------------------------------
(* The catalog *)

NoField == "None"

Fields == {NoField, "title", "author", "subject", "category"}

\* The catalog entries the search is run on, as generate_catalog writes them
\* (every key present; "ddc" null or a string, here <<>> for null).  Against the
\* queries "ab" and "ABC" their fields score 0, 1/2, 3/5, 2/3, 4/5 and 1.
EntryPool ==
    { [title |-> <<"A", "B", "C">>, author |-> <<>>, subjects |-> <<>>,
       ddc |-> <<"7", "8", "0">>, category |-> <<>>,
       file_type |-> <<"p", "d", "f">>],
      [title |-> <<"a", "b", "a", "c", "a", "a", "a">>, author |-> <<"a">>,
       subjects |-> << <<"a", "b">> >>,
       ddc |-> <<"7", "8", "1", ".", "6", "5">>, category |-> <<>>,
       file_type |-> <<"e", "p", "u", "b">>],
      [title |-> <<>>, author |-> <<"a", "b">>,
       subjects |-> << <<"a">>, <<"a", "b", "c">> >>,
       ddc |-> <<>>, category |-> <<"a">>,
       file_type |-> <<"P", "D", "F">>],
      [title |-> <<"a">>, author |-> <<>>, subjects |-> <<>>,
       ddc |-> <<"7", "8">>, category |-> <<"a", "b", "c">>,
       file_type |-> <<"e", "p", "u", "b">>] }

\* A catalog file: up to MaxCatalog entries, the entry at position i with id i
\* (ids are unique in a catalog, and follow the order of generation).
WithId(e, i) == ("id" :> i) @@ e

CatalogFiles ==
    UNION { { [i \in 1..n |-> WithId(c[i], i)] : c \in [1..n -> EntryPool] } :
            n \in 0..MaxCatalog }

Queries == {None, Some(<<>>), Some(<<"a", "b">>), Some(<<"A", "B", "C">>)}

FileTypeFilters == {None, Some(<<"P", "D", "F">>)}

DdcFilters == {None, Some(<<"7", "8", "0">>), Some(<<"7", "8">>)}

----------------------------------------------------------------------------
(* Search Engine: search_catalog *)

\* entry.get("_score", 0)
GetScore(e) == IF "_score" \in DOMAIN e THEN e["_score"] ELSE Zero

\* entry["_score"] = score
SetScore(e, s) == ("_score" :> s) @@ e

\* mutant: a strict comparison with the threshold
MeetsThresholdStrict(score, fz) ==
    ~ScoreGE(IF fz THEN FuzzyThreshold ELSE One, score)

\* mutant: the two thresholds the wrong way round
MeetsThresholdSwapped(score, fz) ==
    ScoreGE(score, IF fz THEN One ELSE FuzzyThreshold)

\* score >= (0.6 if fuzzy else 1.0)
MeetsThreshold(score, fz) == ScoreGE(score, IF fz THEN FuzzyThreshold ELSE One)

\* [fuzzy_match(query, s) for s in entry.get("subjects", [])]
SubjectScores(q, e) == [i \in 1..Len(e.subjects) |-> fuzzy_match(q, e.subjects[i])]

\* mutant: the subjects left out of the maximum
AllFieldsOutcomeNoSubjects(q, e, fz) ==
    LET max_score ==
            MaxOf(<<fuzzy_match(q, e.title), fuzzy_match(q, e.author),
                    fuzzy_match(q, e.category)>>)
    IN  IF (IF fz THEN ScoreGE(max_score, FuzzyThreshold) ELSE max_score = One)
        THEN [match |-> TRUE, score |-> max_score]
        ELSE [match |-> FALSE, score |-> Zero]

\* the "field is None" branch: the maximum over title, author, category and
\* every subject; the score is assigned only on a match
AllFieldsOutcome(q, e, fz) ==
    LET title_score == fuzzy_match(q, e.title)
        author_score == fuzzy_match(q, e.author)
        subject_scores == SubjectScores(q, e)
        category_score == fuzzy_match(q, e.category)
        max_score ==
            MaxOf(<<title_score, author_score, category_score>> \o subject_scores)
    IN  IF fz
        THEN IF ScoreGE(max_score, FuzzyThreshold)
             THEN [match |-> TRUE, score |-> max_score]
             ELSE [match |-> FALSE, score |-> Zero]
        ELSE IF max_score = One
             THEN [match |-> TRUE, score |-> max_score]
             ELSE [match |-> FALSE, score |-> Zero]

\* the branches of one named field
FieldOutcome(q, f, e, fz) ==
    LET score ==
            CASE f = "title" -> fuzzy_match(q, e.title)
              [] f = "author" -> fuzzy_match(q, e.author)
              [] f = "subject" ->
                    IF Len(e.subjects) > 0 THEN MaxOf(SubjectScores(q, e)) ELSE Zero
              [] f = "category" -> fuzzy_match(q, e.category)
    IN  [match |-> MeetsThreshold(score, fz), score |-> score]

\* the "elif query" branch
TextOutcome(q, f, e, fz) ==
    IF f = NoField THEN AllFieldsOutcome(q, e, fz) ELSE FieldOutcome(q, f, e, fz)

\* mutant: the prefix test the wrong way round (the filter starts with the code)
DdcOutcomeReversed(d, e) ==
    IF e.ddc # <<>> /\ StartsWith(d, e.ddc)
    THEN [match |-> TRUE, score |-> One]
    ELSE [match |-> FALSE, score |-> Zero]

\* the "elif ddc" branch
DdcOutcome(d, e) ==
    IF e.ddc # <<>> /\ StartsWith(e.ddc, d)
    THEN [match |-> TRUE, score |-> One]
    ELSE [match |-> FALSE, score |-> Zero]

\* the file-type test that makes the loop skip an entry
FailsFileType(ft, e) == Truthy(ft) /\ Lower(e.file_type) # Lower(ft[1])

\* mutant: the file-type filter applied to the text search only
EntryOutcomeFilterInTextOnly(q, f, ft, d, fz, e) ==
    IF ~Truthy(d) /\ ~Truthy(q) THEN [match |-> TRUE, score |-> One]
    ELSE IF Truthy(d) THEN DdcOutcome(d[1], e)
    ELSE IF FailsFileType(ft, e) THEN [match |-> FALSE, score |-> Zero]
    ELSE TextOutcome(q[1], f, e, fz)

\* mutant: the text search tried before the classification filter
EntryOutcomeTextFirst(q, f, ft, d, fz, e) ==
    IF FailsFileType(ft, e) THEN [match |-> FALSE, score |-> Zero]
    ELSE IF ~Truthy(d) /\ ~Truthy(q) THEN [match |-> TRUE, score |-> One]
    ELSE IF Truthy(q) THEN TextOutcome(q[1], f, e, fz)
    ELSE DdcOutcome(d[1], e)

\* mutant: no branch for a call with neither query nor classification filter
EntryOutcomeNoListing(q, f, ft, d, fz, e) ==
    IF FailsFileType(ft, e) THEN [match |-> FALSE, score |-> Zero]
    ELSE IF Truthy(d) THEN DdcOutcome(d[1], e)
    ELSE IF Truthy(q) THEN TextOutcome(q[1], f, e, fz)
    ELSE [match |-> FALSE, score |-> Zero]

\* One pass of the loop body over an entry: skipped when it fails the file-type
\* filter, else the first branch that applies decides match and score.
EntryOutcome(q, f, ft, d, fz, e) ==
    IF FailsFileType(ft, e) THEN [match |-> FALSE, score |-> Zero]
    ELSE IF ~Truthy(d) /\ ~Truthy(q) THEN [match |-> TRUE, score |-> One]
    ELSE IF Truthy(d) THEN DdcOutcome(d[1], e)
    ELSE TextOutcome(q[1], f, e, fz)

\* mutant: an ascending sort reversed, which reverses the ties
RECURSIVE SortByScoreTiesReversed(_)
SortByScoreTiesReversed(seq) ==
    IF Len(seq) <= 1 THEN seq
    ELSE LET head == seq[1]
             rest == SortByScoreTiesReversed(Tail(seq))
             before == SelectSeq(rest, LAMBDA x : ScoreGE(GetScore(x), GetScore(head)))
             after == SelectSeq(rest, LAMBDA x : ~ScoreGE(GetScore(x), GetScore(head)))
         IN  before \o <<head>> \o after

\* list.sort(key=..., reverse=True): stable, descending.  An entry is placed
\* after every entry whose score is at least its own.
RECURSIVE SortByScore(_)
SortByScore(seq) ==
    IF Len(seq) <= 1 THEN seq
    ELSE LET head == seq[1]
             rest == SortByScore(Tail(seq))
             before == SelectSeq(rest, LAMBDA x : ~ScoreGE(GetScore(head), GetScore(x)))
             after == SelectSeq(rest, LAMBDA x : ScoreGE(GetScore(head), GetScore(x)))
         IN  before \o <<head>> \o after

\* "if not query and not field and not file_type and not ddc: return catalog"
NoCriteria(q, f, ft, d) ==
    ~Truthy(q) /\ f = NoField /\ ~Truthy(ft) /\ ~Truthy(d)

\* The loaded list after the loop: a matching entry has its score attached to
\* the entry itself (entry["_score"] = score), the others are untouched.
LoopedCatalog(loaded, q, f, ft, d, fz) ==
    [i \in 1..Len(loaded) |->
        LET o == EntryOutcome(q, f, ft, d, fz, loaded[i])
        IN  IF o.match THEN SetScore(loaded[i], o.score) ELSE loaded[i]]

\* the entries appended to results, in the order of the loop
Appended(loaded, q, f, ft, d, fz) ==
    LET looped == LoopedCatalog(loaded, q, f, ft, d, fz)
        Keep(n) == EntryOutcome(q, f, ft, d, fz, loaded[n]).match
        RECURSIVE Pick(_)
        Pick(n) == IF n > Len(loaded) THEN <<>>
                   ELSE (IF Keep(n) THEN <<looped[n]>> ELSE <<>>) \o Pick(n + 1)
    IN  Pick(1)

\* what search_catalog returns for the loaded list
SearchResults(loaded, q, f, ft, d, fz) ==
    IF NoCriteria(q, f, ft, d) THEN loaded
    ELSE SortByScore(Appended(loaded, q, f, ft, d, fz))

\* the loaded list when search_catalog returns
SearchedCatalog(loaded, q, f, ft, d, fz) ==
    IF NoCriteria(q, f, ft, d) THEN loaded
    ELSE LoopedCatalog(loaded, q, f, ft, d, fz)

\* load_catalog(): the "catalog" list of the file
load_catalog == catalogFile

\* search_catalog(query, field, file_type, ddc, fuzzy), as one step of main()
SearchCatalog(q, f, ft, d, fz) ==
    /\ pc = "main"
    /\ pc' = "searched"
    /\ query' = q
    /\ field' = f
    /\ file_type' = ft
    /\ ddc' = d
    /\ fuzzy' = fz
    /\ catalog' = SearchedCatalog(load_catalog, q, f, ft, d, fz)
    /\ results' = SearchResults(load_catalog, q, f, ft, d, fz)
    /\ UNCHANGED <<catalogFile, sq, st, sscore>>
    /\ UNCHANGED progressVars
    /\ UNCHANGED <<inputVars, fzfVars, generateVars, filterVars>>

----------------------------------------------------------------------------
(* The scorer, run once on a pair of strings *)

Alphabet == {"a", "b", "A"}

Strings == UNION { [1..n -> Alphabet] : n \in 0..MaxLen }

\* fuzzy_match(query, text)
Score ==
    /\ pc = "fuzzy_match"
    /\ pc' = "scored"
    /\ sscore' = fuzzy_match(sq, st)
    /\ UNCHANGED <<catalogFile, query, field, file_type, ddc, fuzzy, catalog,
                   results, sq, st>>
    /\ UNCHANGED progressVars
    /\ UNCHANGED <<inputVars, fzfVars, generateVars, filterVars>>

----------------------------------------------------------------------------
(* The progress overlay: reading_progress.json, a map from entry id to a    *)
(* record with the optional keys "page" and "last_opened"                   *)

\* the latest date of a run (dates are day numbers, the first day is 1)
MaxDay == 2

\* the largest page number given on a command line
MaxPage == 1

Pages == 0..MaxPage

\* the process instances that share the progress file
Procs == {1, 2}

\* a JSON object without keys: the empty overlay, and the record of a new id
EmptyMap == <<>>

Absent == [kind |-> "absent", data |-> EmptyMap]

Stored(d) == [kind |-> "ok", data |-> d]

\* the file after open(PROGRESS_FILE, "w") and before json.dump has written
Truncated == [kind |-> "empty", data |-> EmptyMap]

\* a file whose bytes are not one JSON document
Corrupt == [kind |-> "corrupt", data |-> EmptyMap]

\* load_progress(): {} when the file is missing, the parsed map when it holds
\* one; json.load raises on every other content, and nothing here catches it
load_progress(f) ==
    IF f.kind = "absent"
    THEN [ok |-> TRUE, data |-> EmptyMap]
    ELSE IF f.kind = "ok"
         THEN [ok |-> TRUE, data |-> f.data]
         ELSE [ok |-> FALSE, data |-> EmptyMap]

\* progress_data[file_id][key] = value, after "if file_id not in
\* progress_data: progress_data[file_id] = {}"
RecordOf(d, id) == IF id \in DOMAIN d THEN d[id] ELSE EmptyMap

\* mutant: the map is built anew around the one record
SetKeyAlone(d, id, key, value) == id :> ((key :> value) @@ RecordOf(d, id))

SetKey(d, id, key, value) == (id :> ((key :> value) @@ RecordOf(d, id))) @@ d

\* _update_progress's change of progress_data: last_opened always, page only
\* when a page is given
\* mutant: without a page the record is written anew, which drops its page
RecordOpenClearingPage(d, id, date, page) ==
    IF page # None
    THEN SetKey(SetKey(d, id, "last_opened", date), id, "page", page[1])
    ELSE (id :> ("last_opened" :> date)) @@ d

RecordOpen(d, id, date, page) ==
    IF page # None
    THEN SetKey(SetKey(d, id, "last_opened", date), id, "page", page[1])
    ELSE SetKey(d, id, "last_opened", date)

\* update_page_command's change of progress_data: page and last_opened
SetPageOf(d, id, date, page) ==
    SetKey(SetKey(d, id, "page", page), id, "last_opened", date)

\* the entries whose title contains the query, both lower-cased, in catalog order
TitleMatches(cat, tq) ==
    SelectSeq(cat, LAMBDA e : IsSubstring(Lower(tq), Lower(e.title)))

\* display_results' lines: one per result, in order, with the entry's index,
\* id, score and the progress annotation (None where the overlay has none)
Annotation(d, id) ==
    [page |-> IF id \in DOMAIN d /\ "page" \in DOMAIN d[id]
              THEN Some(d[id]["page"]) ELSE None,
     last_opened |-> IF id \in DOMAIN d /\ "last_opened" \in DOMAIN d[id]
                     THEN Some(d[id]["last_opened"]) ELSE None]

\* mutant: only the entries with a progress record are printed
DisplayLinesReadOnly(res, d) ==
    LET read == SelectSeq(res, LAMBDA e : e.id \in DOMAIN d)
    IN  [i \in 1..Len(read) |->
            [n |-> i, id |-> read[i].id, progress |-> Annotation(d, read[i].id)]]

DisplayLines(res, d) ==
    [i \in 1..Len(res) |->
        [n |-> i, id |-> res[i].id, progress |-> Annotation(d, res[i].id)]]

\* the catalog the progress commands run on: three entries, ids 1..3
ProgressCatalog ==
    << WithId([title |-> <<"A", "B", "C">>, author |-> <<>>, subjects |-> <<>>,
               ddc |-> <<"7", "8", "0">>, category |-> <<>>,
               file_type |-> <<"p", "d", "f">>], 1),
       WithId([title |-> <<"a", "b", "a", "c", "a", "a", "a">>,
               author |-> <<"a">>, subjects |-> << <<"a", "b">> >>,
               ddc |-> <<"7", "8", "1", ".", "6", "5">>, category |-> <<>>,
               file_type |-> <<"e", "p", "u", "b">>], 2),
       WithId([title |-> <<"a">>, author |-> <<>>, subjects |-> <<>>,
               ddc |-> <<"7", "8">>, category |-> <<"a", "b", "c">>,
               file_type |-> <<"e", "p", "u", "b">>], 3) >>

ProgressIds == {ProgressCatalog[i].id : i \in 1..Len(ProgressCatalog)}

\* no page argument, and search.py is not run
NoInput ==
    /\ pageArg = [p \in Procs |-> <<>>]
    /\ choice = <<>>
    /\ legacyOpened = <<>>

\* run_fzf_search is not modelled line by line
NoFzf ==
    /\ entries = <<>>
    /\ fzf_lines = <<>>
    /\ picked = 0
    /\ returned = None
    /\ fpc = "off"

\* generate_catalog.py is not run
NoGenerate ==
    /\ library = {}
    /\ scanOrder = <<>>
    /\ generated = None
    /\ previous = None

\* filter_catalog is not modelled statement by statement
NoFilter ==
    /\ listArg = <<>>
    /\ listGiven = <<>>
    /\ options = [ddc |-> None, file_type |-> None, recent |-> FALSE,
                  in_progress |-> FALSE]
    /\ fprogress = Absent
    /\ filtered = <<>>
    /\ flpc = "off"

\* the command-line tools beside the search are not run
NoTools == NoInput /\ NoFzf /\ NoGenerate /\ NoFilter

\* the progress variables of a run that never touches the progress file
NoProgress ==
    /\ progressFile = Absent
    /\ libraryFiles = {}
    /\ catalogExists = TRUE
    /\ diag = [p \in Procs |-> ""]
    /\ firstCatalog = [p \in Procs |-> [read |-> FALSE, list |-> <<>>]]
    /\ today = 1
    /\ ppc = [p \in Procs |-> "off"]
    /\ mode = [p \in Procs |-> "off"]
    /\ setPage = [p \in Procs |-> None]
    /\ titleQuery = [p \in Procs |-> <<>>]
    /\ found = [p \in Procs |-> <<>>]
    /\ sel = [p \in Procs |-> 0]
    /\ shown = [p \in Procs |-> EmptyMap]
    /\ local = [p \in Procs |-> EmptyMap]
    /\ ret = [p \in Procs |-> "-"]
    /\ out = [p \in Procs |-> [msg |-> "", ids |-> <<>>]]
    /\ displayed = <<>>
    /\ cancelled = [p \in Procs |-> FALSE]
    /\ atCall = [p \in Procs |-> Absent]
    /\ atReload = [p \in Procs |-> Absent]
    /\ interfered = [p \in Procs |-> FALSE]
    /\ lastPage = [i \in ProgressIds |-> None]
    /\ lastDate = [i \in ProgressIds |-> None]

----------------------------------------------------------------------------
(* One run: a search over a catalog file, or the scorer on a pair of strings *)

InitSearch ==
    /\ pc = "main"
    /\ catalogFile \in CatalogFiles
    /\ sq = <<>>
    /\ st = <<>>

InitScore ==
    /\ pc = "fuzzy_match"
    /\ catalogFile = <<>>
    /\ sq \in Strings
    /\ st \in Strings

Init ==
    /\ InitSearch \/ InitScore
    /\ query = None
    /\ field = NoField
    /\ file_type = None
    /\ ddc = None
    /\ fuzzy = TRUE
    /\ catalog = <<>>
    /\ results = <<>>
    /\ sscore = Zero
    /\ NoProgress
    /\ NoTools

Search ==
    \E q \in Queries, f \in Fields, ft \in FileTypeFilters, d \in DdcFilters,
       fz \in BOOLEAN :
        SearchCatalog(q, f, ft, d, fz)

Next == Search \/ Score

Spec == Init /\ [][Next]_vars

----------------------------------------------------------------------------
(* The search over the two-title catalog of the specification's scenario *)

\* "Beethoven Sonatas" (pdf) and "Beethoven Symphonies" (epub); the keys the
\* scenario leaves out read as "" and [] through entry.get
BeethovenCatalog ==
    << [id |-> 1,
        title |-> <<"B", "e", "e", "t", "h", "o", "v", "e", "n", " ",
                    "S", "o", "n", "a", "t", "a", "s">>,
        author |-> <<>>, subjects |-> <<>>, ddc |-> <<>>, category |-> <<>>,
        file_type |-> <<"p", "d", "f">>],
       [id |-> 2,
        title |-> <<"B", "e", "e", "t", "h", "o", "v", "e", "n", " ",
                    "S", "y", "m", "p", "h", "o", "n", "i", "e", "s">>,
        author |-> <<>>, subjects |-> <<>>, ddc |-> <<>>, category |-> <<>>,
        file_type |-> <<"e", "p", "u", "b">>] >>

Beetoven == <<"B", "e", "e", "t", "o", "v", "e", "n">>

ScenarioQueries ==
    {None, Some(Beetoven), Some(<<"B", "e", "e", "t", "h", "o", "v", "e", "n">>)}

InitScenario ==
    /\ pc = "main"
    /\ catalogFile = BeethovenCatalog
    /\ query = None
    /\ field = NoField
    /\ file_type = None
    /\ ddc = None
    /\ fuzzy = TRUE
    /\ catalog = <<>>
    /\ results = <<>>
    /\ sq = <<>>
    /\ st = <<>>
    /\ sscore = Zero
    /\ NoProgress
    /\ NoTools

SearchScenario ==
    \E q \in ScenarioQueries, f \in Fields, ft \in FileTypeFilters,
       d \in DdcFilters, fz \in BOOLEAN :
        SearchCatalog(q, f, ft, d, fz)

NextScenario == SearchScenario

SpecScenario == InitScenario /\ [][NextScenario]_vars

----------------------------------------------------------------------------
(* The commands that read and write the progress overlay, one process       *)
(* instance p each: main() of cli.py (the run-once mode and the interactive *)
(* loop), open_file of opener.py, update_page_command of fzf.py and         *)
(* display_results of cli.py.  A step is what the code does between two     *)
(* points where another instance can run or the user is waited for.         *)

Says(p, m, l) == [out EXCEPT ![p] = [msg |-> m, ids |-> l]]

Goes(p, to) == [ppc EXCEPT ![p] = to]

\* the search of main(): the loop passes None for the query
Found(p) ==
    SearchResults(load_catalog, IF mode[p] = "loop" THEN None ELSE query,
                  field, file_type, ddc, fuzzy)

\* where main() continues when cli.open_file returns: it waits for Enter after
\* a successful open, and the loop searches again after a failed one
AfterOpen(p, ok) ==
    IF ok THEN "notes" ELSE IF mode[p] = "loop" THEN "main" ELSE "done"

FoundIds(p) == {found[p][i].id : i \in 1..Len(found[p])}

\* mutant: a missing catalog file is read as one without entries
CatalogMissingIgnored == FALSE

\* "if not CATALOG_FILE.exists()": load_catalog prints the remedy and calls
\* sys.exit(1)
CatalogMissing == ~catalogExists

\* what load_catalog prints when the file has no entries
EmptyWarning ==
    IF load_catalog = <<>> THEN "Warning: Catalog is empty." ELSE ""

\* the list the instance's first load_catalog() returned
FirstRead(p) ==
    IF firstCatalog[p].read
    THEN firstCatalog
    ELSE [firstCatalog EXCEPT ![p] = [read |-> TRUE, list |-> load_catalog]]

\* results = search_catalog(...), and when it found entries, main()'s
\* progress_data = load_progress() up to the prompt of run_fzf_search
MainSearch(p) ==
    /\ ppc[p] = "main"
    /\ sel' = [sel EXCEPT ![p] = 0]
    /\ ret' = [ret EXCEPT ![p] = "-"]
    /\ IF CatalogMissing
       THEN /\ ppc' = Goes(p, "exited")
            /\ diag' = [diag EXCEPT ![p] = "Error: Catalog not found. Run 'dlm-catalog'"]
            /\ UNCHANGED <<found, out, shown, atCall, firstCatalog>>
       ELSE /\ diag' = [diag EXCEPT ![p] = EmptyWarning]
            /\ firstCatalog' = FirstRead(p)
            /\ \E res \in {Found(p)} :
                /\ found' = [found EXCEPT ![p] = res]
                /\ IF res = <<>>
                   THEN /\ ppc' = Goes(p, "done")
                        /\ out' = Says(p, "No results found.", <<>>)
                        /\ UNCHANGED <<shown, atCall>>
                   ELSE IF mode[p] = "batch"
                        THEN /\ ppc' = Goes(p, "display")
                             /\ UNCHANGED <<out, shown, atCall>>
                        ELSE IF ~load_progress(progressFile).ok
                             THEN /\ ppc' = Goes(p, "crashed")
                                  /\ out' = Says(p, "Traceback", <<>>)
                                  /\ UNCHANGED <<shown, atCall>>
                             ELSE /\ ppc' = Goes(p, "prompt")
                                  /\ shown' = [shown EXCEPT ![p] =
                                                  load_progress(progressFile).data]
                                  /\ atCall' = [atCall EXCEPT ![p] = progressFile]
                                  /\ UNCHANGED out
    /\ cancelled' = [cancelled EXCEPT ![p] = FALSE]
    /\ UNCHANGED <<progressFile, libraryFiles, today, mode, setPage, titleQuery,
                   local, displayed, atReload, interfered, lastPage, lastDate>>
    /\ UNCHANGED <<catalogExists>>
    /\ UNCHANGED searchVars
    /\ UNCHANGED <<inputVars, fzfVars, generateVars, filterVars>>

\* run_fzf_search returns the entry the user chose
Select(p, id) ==
    /\ ppc[p] = "prompt"
    /\ id \in FoundIds(p)
    /\ sel' = [sel EXCEPT ![p] = id]
    /\ ppc' = Goes(p, "opening")
    /\ UNCHANGED <<progressFile, libraryFiles, today, mode, setPage, titleQuery,
                   found, shown, local, ret, out, displayed, atCall, atReload,
                   interfered, lastPage, lastDate, cancelled>>
    /\ UNCHANGED <<catalogExists, diag, firstCatalog>>
    /\ UNCHANGED searchVars
    /\ UNCHANGED <<inputVars, fzfVars, generateVars, filterVars>>

\* mutant: without a selection the first result is opened
CancelOpensFirst(p) ==
    /\ ppc[p] = "prompt"
    /\ sel' = [sel EXCEPT ![p] = found[p][1].id]
    /\ ppc' = Goes(p, "opening")
    /\ cancelled' = [cancelled EXCEPT ![p] = TRUE]
    /\ UNCHANGED <<progressFile, libraryFiles, today, mode, setPage, titleQuery,
                   found, shown, local, ret, out, displayed, atCall, atReload,
                   interfered, lastPage, lastDate>>
    /\ UNCHANGED <<catalogExists, diag, firstCatalog>>
    /\ UNCHANGED searchVars
    /\ UNCHANGED <<inputVars, fzfVars, generateVars, filterVars>>

\* run_fzf_search returns None: fzf exited without a selection or was interrupted
Cancel(p) ==
    /\ ppc[p] = "prompt"
    /\ ppc' = Goes(p, "done")
    /\ out' = IF mode[p] = "loop" THEN Says(p, "Goodbye!", <<>>) ELSE out
    /\ cancelled' = [cancelled EXCEPT ![p] = TRUE]
    /\ UNCHANGED <<progressFile, libraryFiles, today, mode, setPage, titleQuery,
                   found, sel, shown, local, ret, displayed, atCall, atReload,
                   interfered, lastPage, lastDate>>
    /\ UNCHANGED <<catalogExists, diag, firstCatalog>>
    /\ UNCHANGED searchVars
    /\ UNCHANGED <<inputVars, fzfVars, generateVars, filterVars>>

\* mutant: the progress record is saved before the existence check
OpenFileRecordingFirst(p) ==
    /\ ppc[p] = "opening"
    /\ load_progress(progressFile).ok
    /\ atCall' = [atCall EXCEPT ![p] = progressFile]
    /\ progressFile' = Stored(RecordOpen(load_progress(progressFile).data,
                                         sel[p], today, setPage[p]))
    /\ IF sel[p] \notin libraryFiles
       THEN /\ ret' = [ret EXCEPT ![p] = "False"]
            /\ out' = Says(p, "Error: File not found", <<>>)
            /\ ppc' = Goes(p, AfterOpen(p, FALSE))
       ELSE /\ ppc' = Goes(p, "viewer")
            /\ UNCHANGED <<ret, out>>
    /\ UNCHANGED <<libraryFiles, today, mode, setPage, titleQuery, found, sel, shown,
                   local, displayed, atReload, interfered, lastPage, lastDate, cancelled>>
    /\ UNCHANGED <<catalogExists, diag, firstCatalog>>
    /\ UNCHANGED searchVars
    /\ UNCHANGED <<inputVars, fzfVars, generateVars, filterVars>>

\* open_file, up to the launch of the viewer: the existence check and the
\* load_progress() that prints the last page, which no handler surrounds
OpenFile(p) ==
    /\ ppc[p] = "opening"
    /\ atCall' = [atCall EXCEPT ![p] = progressFile]
    /\ IF sel[p] \notin libraryFiles
       THEN /\ ret' = [ret EXCEPT ![p] = "False"]
            /\ out' = Says(p, "Error: File not found", <<>>)
            /\ ppc' = Goes(p, AfterOpen(p, FALSE))
       ELSE IF ~load_progress(progressFile).ok
            THEN /\ ppc' = Goes(p, "crashed")
                 /\ out' = Says(p, "Traceback", <<>>)
                 /\ UNCHANGED ret
            ELSE /\ ppc' = Goes(p, "viewer")
                 /\ UNCHANGED <<ret, out>>
    /\ UNCHANGED <<progressFile, libraryFiles, today, mode, setPage, titleQuery,
                   found, sel, shown, local, displayed, atReload, interfered, lastPage,
                   lastDate, cancelled>>
    /\ UNCHANGED <<catalogExists, diag, firstCatalog>>
    /\ UNCHANGED searchVars
    /\ UNCHANGED <<inputVars, fzfVars, generateVars, filterVars>>

\* the viewer's launcher returned
ViewerLaunched(p) ==
    /\ ppc[p] = "viewer"
    /\ ppc' = Goes(p, "update")
    /\ UNCHANGED <<progressFile, libraryFiles, today, mode, setPage, titleQuery,
                   found, sel, shown, local, ret, out, displayed, atCall, atReload,
                   interfered, lastPage, lastDate, cancelled>>
    /\ UNCHANGED <<catalogExists, diag, firstCatalog>>
    /\ UNCHANGED searchVars
    /\ UNCHANGED <<inputVars, fzfVars, generateVars, filterVars>>

\* launching the viewer raised: "except Exception" prints and returns False
ViewerFailed(p) ==
    /\ ppc[p] = "viewer"
    /\ ret' = [ret EXCEPT ![p] = "False"]
    /\ out' = Says(p, "Error opening file", <<>>)
    /\ ppc' = Goes(p, AfterOpen(p, FALSE))
    /\ UNCHANGED <<progressFile, libraryFiles, today, mode, setPage, titleQuery,
                   found, sel, shown, local, displayed, atCall, atReload, interfered,
                   lastPage, lastDate, cancelled>>
    /\ UNCHANGED <<catalogExists, diag, firstCatalog>>
    /\ UNCHANGED searchVars
    /\ UNCHANGED <<inputVars, fzfVars, generateVars, filterVars>>

\* mutant: the progress_data main() loaded before the prompt is reused
PromptProgress(p) == [ok |-> TRUE, data |-> shown[p]]

\* progress_data = load_progress() of _update_progress
ReloadedProgress(p) == load_progress(progressFile)

\* _update_progress up to save_progress: reload, change the record of the
\* opened entry; a load that raises is caught by open_file's handler
UpdateProgress(p) ==
    /\ ppc[p] = "update"
    /\ atReload' = [atReload EXCEPT ![p] = progressFile]
    /\ interfered' = [interfered EXCEPT ![p] = FALSE]
    /\ IF ~ReloadedProgress(p).ok
       THEN /\ ret' = [ret EXCEPT ![p] = "False"]
            /\ out' = Says(p, "Error opening file", <<>>)
            /\ ppc' = Goes(p, AfterOpen(p, FALSE))
            /\ UNCHANGED <<local, lastPage, lastDate>>
       ELSE /\ local' = [local EXCEPT ![p] =
                            RecordOpen(ReloadedProgress(p).data, sel[p], today,
                                       setPage[p])]
            /\ ppc' = Goes(p, "save_open")
            /\ lastPage' = IF setPage[p] # None
                           THEN [lastPage EXCEPT ![sel[p]] = setPage[p]]
                           ELSE lastPage
            /\ lastDate' = [lastDate EXCEPT ![sel[p]] = Some(today)]
            /\ UNCHANGED <<ret, out>>
    /\ UNCHANGED <<progressFile, libraryFiles, today, mode, setPage, titleQuery,
                   found, sel, shown, displayed, atCall, cancelled>>
    /\ UNCHANGED <<catalogExists, diag, firstCatalog>>
    /\ UNCHANGED searchVars
    /\ UNCHANGED <<inputVars, fzfVars, generateVars, filterVars>>

\* save_progress: open(PROGRESS_FILE, "w") cuts the file to zero bytes
SaveOpen(p) ==
    /\ ppc[p] = "save_open"
    /\ progressFile' = Truncated
    /\ ppc' = Goes(p, "save_write")
    /\ UNCHANGED <<libraryFiles, today, mode, setPage, titleQuery, found, sel, shown,
                   local, ret, out, displayed, atCall, atReload, interfered,
                   lastPage, lastDate, cancelled>>
    /\ UNCHANGED <<catalogExists, diag, firstCatalog>>
    /\ UNCHANGED searchVars
    /\ UNCHANGED <<inputVars, fzfVars, generateVars, filterVars>>

\* what the file holds after json.dump and close: this instance's map; when
\* another instance has written since this one cut the file, the bytes of the
\* two documents overlap and the result is this map or no JSON document
WriteOutcomes(p) ==
    IF progressFile.kind = "empty"
    THEN {Stored(local[p])}
    ELSE {Stored(local[p]), Corrupt}

\* save_progress: json.dump(progress_data, f, indent=2) and close, then the
\* return to the caller
SaveWrite(p) ==
    /\ ppc[p] = "save_write"
    /\ \E f \in WriteOutcomes(p) : progressFile' = f
    /\ interfered' = [q \in Procs |-> IF q = p THEN interfered[p] ELSE TRUE]
    /\ IF mode[p] = "update_page"
       THEN /\ ppc' = Goes(p, "done")
            /\ out' = Says(p, "Updated", <<sel[p]>>)
            /\ UNCHANGED ret
       ELSE /\ ppc' = Goes(p, AfterOpen(p, TRUE))
            /\ ret' = [ret EXCEPT ![p] = "True"]
            /\ UNCHANGED out
    /\ UNCHANGED <<libraryFiles, today, mode, setPage, titleQuery, found, sel, shown,
                   local, displayed, atCall, atReload, lastPage, lastDate, cancelled>>
    /\ UNCHANGED <<catalogExists, diag, firstCatalog>>
    /\ UNCHANGED searchVars
    /\ UNCHANGED <<inputVars, fzfVars, generateVars, filterVars>>

\* cli.open_file after a successful open: Enter is pressed, the notes are
\* exported, main() returns or searches again
NotesDone(p) ==
    /\ ppc[p] = "notes"
    /\ ppc' = Goes(p, IF mode[p] = "loop" THEN "main" ELSE "done")
    /\ UNCHANGED <<progressFile, libraryFiles, today, mode, setPage, titleQuery,
                   found, sel, shown, local, ret, out, displayed, atCall, atReload,
                   interfered, lastPage, lastDate, cancelled>>
    /\ UNCHANGED <<catalogExists, diag, firstCatalog>>
    /\ UNCHANGED searchVars
    /\ UNCHANGED <<inputVars, fzfVars, generateVars, filterVars>>

\* export_notes_to_joplin raises (an extractor or Joplin error that is not
\* caught where it occurs, or its own datetime.timedelta lookup): cli.open_file
\* catches KeyboardInterrupt only, and main() has no handler
NotesFailed(p) ==
    /\ ppc[p] = "notes"
    /\ ppc' = Goes(p, "crashed")
    /\ out' = Says(p, "Traceback", <<>>)
    /\ UNCHANGED <<progressFile, libraryFiles, today, mode, setPage, titleQuery,
                   found, sel, shown, local, ret, displayed, atCall, atReload,
                   interfered, lastPage, lastDate, cancelled>>
    /\ UNCHANGED <<catalogExists, diag, firstCatalog>>
    /\ UNCHANGED searchVars
    /\ UNCHANGED <<inputVars, fzfVars, generateVars, filterVars>>

\* mutant: several matches are not refused, the first one is taken
RefusedNever(m) == FALSE

\* "if len(matches) > 1": the command is refused
Refused(m) == Len(m) > 1

\* the candidates the refusal lists: matches[:5]
Candidates(m) == [i \in 1..(IF Len(m) < 5 THEN Len(m) ELSE 5) |-> m[i].id]

\* update_page_command(title_query, page) up to save_progress
UpdatePageCommand(p) ==
    /\ ppc[p] = "update_page"
    /\ atCall' = [atCall EXCEPT ![p] = progressFile]
    /\ atReload' = [atReload EXCEPT ![p] = progressFile]
    /\ interfered' = [interfered EXCEPT ![p] = FALSE]
    /\ IF CatalogMissing
       THEN /\ ppc' = Goes(p, "exited")
            /\ diag' = [diag EXCEPT ![p] = "Error: Catalog not found. Run 'dlm-catalog'"]
            /\ UNCHANGED <<out, sel, local, lastPage, lastDate, firstCatalog>>
       ELSE /\ diag' = [diag EXCEPT ![p] = EmptyWarning]
            /\ firstCatalog' = FirstRead(p)
            /\ LET m == TitleMatches(load_catalog, titleQuery[p])
                   l == load_progress(progressFile)
               IN  IF ~l.ok
                   THEN /\ ppc' = Goes(p, "crashed")
                        /\ out' = Says(p, "Traceback", <<>>)
                        /\ UNCHANGED <<sel, local, lastPage, lastDate>>
                   ELSE IF m = <<>>
                        THEN /\ ppc' = Goes(p, "done")
                             /\ out' = Says(p, "No book found", <<>>)
                             /\ UNCHANGED <<sel, local, lastPage, lastDate>>
                        ELSE IF Refused(m)
                             THEN /\ ppc' = Goes(p, "done")
                                  /\ out' = Says(p, "Multiple matches found",
                                                 Candidates(m))
                                  /\ UNCHANGED <<sel, local, lastPage, lastDate>>
                             ELSE /\ sel' = [sel EXCEPT ![p] = m[1].id]
                                  /\ local' = [local EXCEPT ![p] =
                                                  SetPageOf(l.data, m[1].id, today,
                                                            setPage[p][1])]
                                  /\ ppc' = Goes(p, "save_open")
                                  /\ lastPage' = [lastPage EXCEPT ![m[1].id] =
                                                     setPage[p]]
                                  /\ lastDate' = [lastDate EXCEPT ![m[1].id] =
                                                     Some(today)]
                                  /\ UNCHANGED out
    /\ UNCHANGED <<progressFile, libraryFiles, today, mode, setPage, titleQuery,
                   found, shown, ret, displayed, cancelled>>
    /\ UNCHANGED <<catalogExists>>
    /\ UNCHANGED searchVars
    /\ UNCHANGED <<inputVars, fzfVars, generateVars, filterVars>>

\* display_results(results) on a list that is not empty, as a caller of
\* search_catalog prints its results (the "batch" mode)
DisplayResults(p) ==
    /\ ppc[p] = "display"
    /\ IF ~load_progress(progressFile).ok
       THEN /\ ppc' = Goes(p, "crashed")
            /\ out' = Says(p, "Traceback", <<>>)
            /\ UNCHANGED displayed
       ELSE /\ ppc' = Goes(p, "displayed")
            /\ displayed' = DisplayLines(found[p],
                                         load_progress(progressFile).data)
            /\ UNCHANGED out
    /\ UNCHANGED <<progressFile, libraryFiles, today, mode, setPage, titleQuery,
                   found, sel, shown, local, ret, atCall, atReload, interfered,
                   lastPage, lastDate, cancelled>>
    /\ UNCHANGED <<catalogExists, diag, firstCatalog>>
    /\ UNCHANGED searchVars
    /\ UNCHANGED <<inputVars, fzfVars, generateVars, filterVars>>

\* midnight passes
Tick ==
    /\ pc = "progress"
    /\ today < MaxDay
    /\ today' = today + 1
    /\ UNCHANGED <<progressFile, libraryFiles, ppc, mode, setPage, titleQuery,
                   found, sel, shown, local, ret, out, displayed, atCall, atReload,
                   interfered, lastPage, lastDate, cancelled>>
    /\ UNCHANGED <<catalogExists, diag, firstCatalog>>
    /\ UNCHANGED searchVars
    /\ UNCHANGED <<inputVars, fzfVars, generateVars, filterVars>>

----------------------------------------------------------------------------
(* Runs over the progress file *)

\* a record written by an earlier run, on the first day
EarlierRecord == [page |-> 1, last_opened |-> 1]

ProgressFiles ==
    {Absent, Corrupt, Stored(EmptyMap), Stored(1 :> EarlierRecord)}

ProgressQueries == {None, Some(<<"A", "B", "C">>), Some(<<"b", "b">>)}

TitleQueries == {<<"A", "B", "C">>, <<"a", "b">>, <<"c", "c">>}

Modes == {"loop", "once", "update_page", "batch"}

\* where each mode of the command line starts
StartOf(m) ==
    CASE m = "loop" -> "main"
      [] m = "once" -> "main"
      [] m = "update_page" -> "update_page"
      [] m = "batch" -> "main"
      [] m = "cli_args" -> "args"
      [] m = "fzf_args" -> "args"
      [] m = "legacy" -> "legacy"
      [] OTHER -> "off"

\* the arguments each mode is given: main() runs once when a page or a query
\* is given and loops otherwise; --update-page takes a title and a page
ArgsFit(p) ==
    CASE mode[p] = "loop" ->
            setPage[p] = None /\ titleQuery[p] = <<>> /\ ~Truthy(query)
      [] mode[p] = "once" ->
            titleQuery[p] = <<>> /\ (setPage[p] # None \/ Truthy(query))
      [] mode[p] = "update_page" ->
            setPage[p] # None /\ titleQuery[p] \in TitleQueries
      [] mode[p] = "cli_args" ->
            setPage[p] = None /\ titleQuery[p] = <<>>
      [] mode[p] \in {"fzf_args", "legacy"} ->
            setPage[p] = None /\ titleQuery[p] \in TitleQueries
      [] OTHER -> setPage[p] = None /\ titleQuery[p] = <<>>

\* the state of the instances before their first step, over a progress file
\* whose records are the history so far
ProgressStart ==
    /\ pc = "progress"
    /\ field = NoField
    /\ file_type = None
    /\ ddc = None
    /\ fuzzy = TRUE
    /\ catalog = <<>>
    /\ results = <<>>
    /\ sq = <<>>
    /\ st = <<>>
    /\ sscore = Zero
    /\ today = 1
    /\ setPage \in [Procs -> {None} \cup {Some(n) : n \in Pages}]
    /\ titleQuery \in [Procs -> TitleQueries \cup {<<>>}]
    /\ \A p \in Procs : ArgsFit(p)
    /\ ppc = [p \in Procs |-> StartOf(mode[p])]
    /\ found = [p \in Procs |-> <<>>]
    /\ sel = [p \in Procs |-> 0]
    /\ diag = [p \in Procs |-> ""]
    /\ firstCatalog = [p \in Procs |-> [read |-> FALSE, list |-> <<>>]]
    /\ shown = [p \in Procs |-> EmptyMap]
    /\ local = [p \in Procs |-> EmptyMap]
    /\ ret = [p \in Procs |-> "-"]
    /\ out = [p \in Procs |-> [msg |-> "", ids |-> <<>>]]
    /\ displayed = <<>>
    /\ cancelled = [p \in Procs |-> FALSE]
    /\ atCall = [p \in Procs |-> progressFile]
    /\ atReload = [p \in Procs |-> progressFile]
    /\ interfered = [p \in Procs |-> FALSE]
    /\ lastPage = [i \in ProgressIds |->
                      IF i \in DOMAIN progressFile.data
                         /\ "page" \in DOMAIN progressFile.data[i]
                      THEN Some(progressFile.data[i]["page"]) ELSE None]
    /\ lastDate = [i \in ProgressIds |->
                      IF i \in DOMAIN progressFile.data
                         /\ "last_opened" \in DOMAIN progressFile.data[i]
                      THEN Some(progressFile.data[i]["last_opened"]) ELSE None]

\* one instance, in any mode, over any progress file
InitProgress ==
    /\ catalogFile = ProgressCatalog
    /\ query \in ProgressQueries
    /\ progressFile \in ProgressFiles
    /\ libraryFiles \in {ProgressIds, ProgressIds \ {1}}
    /\ catalogExists = TRUE
    /\ mode \in [Procs -> Modes \cup {"off"}]
    /\ mode[1] \in Modes
    /\ \A p \in Procs \ {1} : mode[p] = "off"
    /\ ProgressStart
    /\ NoTools

NextProgress ==
    \/ \E p \in Procs :
          \/ MainSearch(p)
          \/ \E id \in ProgressIds : Select(p, id)
          \/ Cancel(p)
          \/ OpenFile(p)
          \/ ViewerLaunched(p)
          \/ ViewerFailed(p)
          \/ UpdateProgress(p)
          \/ SaveOpen(p)
          \/ SaveWrite(p)
          \/ NotesDone(p)
          \/ UpdatePageCommand(p)
          \/ DisplayResults(p)
    \/ Tick

SpecProgress == InitProgress /\ [][NextProgress]_vars

\* two instances at once, each opening one entry with --set-page or setting
\* a page by title, over a well-formed progress file
InitConcurrent ==
    /\ catalogFile = ProgressCatalog
    /\ query = None
    /\ progressFile \in {Absent, Stored(1 :> EarlierRecord)}
    /\ libraryFiles = ProgressIds
    /\ catalogExists = TRUE
    /\ mode \in [Procs -> {"once", "update_page"}]
    /\ ProgressStart
    /\ NoTools

NextConcurrent ==
    \E p \in Procs :
        \/ MainSearch(p)
        \/ \E id \in ProgressIds : Select(p, id)
        \/ Cancel(p)
        \/ OpenFile(p)
        \/ ViewerLaunched(p)
        \/ ViewerFailed(p)
        \/ UpdateProgress(p)
        \/ SaveOpen(p)
        \/ SaveWrite(p)
        \/ NotesDone(p)
        \/ UpdatePageCommand(p)

SpecConcurrent == InitConcurrent /\ [][NextConcurrent]_vars

----------------------------------------------------------------------------
(* A session of one instance over a catalog file that may be missing, hold  *)
(* no entries, or be written again by dlm-catalog while the instance runs   *)

\* dlm-catalog writes catalog.json anew
Regenerate ==
    /\ pc = "progress"
    /\ \E c \in {SubSeq(ProgressCatalog, 1, 2), ProgressCatalog} :
          /\ ~catalogExists \/ c # catalogFile
          /\ catalogFile' = c
    /\ catalogExists' = TRUE
    /\ UNCHANGED <<progressFile, libraryFiles, today, ppc, mode, setPage,
                   titleQuery, found, sel, shown, local, ret, out, displayed,
                   cancelled, atCall, atReload, interfered, lastPage, lastDate,
                   diag, firstCatalog>>
    /\ UNCHANGED <<pc, query, field, file_type, ddc, fuzzy, catalog, results,
                   sq, st, sscore>>
    /\ UNCHANGED <<inputVars, fzfVars, generateVars, filterVars>>

InitSession ==
    /\ catalogExists \in BOOLEAN
    /\ catalogFile \in (IF catalogExists
                         THEN {<<>>, SubSeq(ProgressCatalog, 1, 2), ProgressCatalog}
                         ELSE {<<>>})
    /\ query \in ProgressQueries
    /\ progressFile \in ProgressFiles
    /\ libraryFiles = ProgressIds
    /\ mode \in [Procs -> {"loop", "once", "update_page", "off"}]
    /\ mode[1] # "off"
    /\ \A p \in Procs \ {1} : mode[p] = "off"
    /\ ProgressStart
    /\ NoTools

NextSession ==
    \/ \E p \in Procs :
          \/ MainSearch(p)
          \/ \E id \in ProgressIds : Select(p, id)
          \/ Cancel(p)
          \/ OpenFile(p)
          \/ ViewerLaunched(p)
          \/ ViewerFailed(p)
          \/ UpdateProgress(p)
          \/ SaveOpen(p)
          \/ SaveWrite(p)
          \/ NotesDone(p)
          \/ NotesFailed(p)
          \/ UpdatePageCommand(p)
    \/ Regenerate

SpecSession == InitSession /\ [][NextSession]_vars

----------------------------------------------------------------------------
(* What the user types: the page given to --set-page and --update-page, and  *)
(* the answers to the selection prompt of search.py                          *)

InputTexts ==
    UNION {[1..n -> {"0", "1", "2", "q", "Q", "x", " "}] : n \in 0..MaxInput}

\* str.isdigit(): not empty, and every character a digit
IsDigit(s) ==
    /\ s # <<>>
    /\ \A i \in 1..Len(s) :
          s[i] \in {"0", "1", "2", "3", "4", "5", "6", "7", "8", "9"}

DigitValue(c) ==
    CASE c = "0" -> 0 [] c = "1" -> 1 [] c = "2" -> 2 [] c = "3" -> 3
      [] c = "4" -> 4 [] c = "5" -> 5 [] c = "6" -> 6 [] c = "7" -> 7
      [] c = "8" -> 8 [] OTHER -> 9

\* str.strip(): blanks, tabs and newlines are the white space that occurs
RECURSIVE Strip(_)
Strip(s) ==
    IF s = <<>> THEN s
    ELSE IF Head(s) \in {" ", "\t", "\n"} THEN Strip(Tail(s))
    ELSE IF s[Len(s)] \in {" ", "\t", "\n"}
         THEN Strip(SubSeq(s, 1, Len(s) - 1))
    ELSE s

\* the value int(s) returns; int(s) succeeds when IsDigit(Strip(s)), no sign
\* or underscore being among the characters typed here
RECURSIVE DecimalValue(_)
DecimalValue(s) ==
    IF s = <<>> THEN 0
    ELSE 10 * DecimalValue(SubSeq(s, 1, Len(s) - 1)) + DigitValue(s[Len(s)])

IntOf(s) == DecimalValue(Strip(s))

\* the argument loop of cli.main on "--set-page X", and fzf.main on
\* "--update-page TITLE X"
ParseArgs(p) ==
    /\ ppc[p] = "args"
    /\ IF mode[p] = "cli_args"
       THEN IF IsDigit(pageArg[p])
            THEN /\ setPage' = [setPage EXCEPT ![p] = Some(IntOf(pageArg[p]))]
                 /\ mode' = [mode EXCEPT ![p] = "once"]
                 /\ ppc' = Goes(p, "main")
                 /\ UNCHANGED out
            ELSE /\ out' = Says(p, "Error: --set-page requires an integer page number",
                                <<>>)
                 /\ ppc' = Goes(p, "done")
                 /\ UNCHANGED <<setPage, mode>>
       ELSE IF IsDigit(Strip(pageArg[p]))
            THEN /\ setPage' = [setPage EXCEPT ![p] = Some(IntOf(pageArg[p]))]
                 /\ mode' = [mode EXCEPT ![p] = "update_page"]
                 /\ ppc' = Goes(p, "update_page")
                 /\ UNCHANGED out
            ELSE /\ out' = Says(p, "Traceback", <<>>)
                 /\ ppc' = Goes(p, "crashed")
                 /\ UNCHANGED <<setPage, mode>>
    /\ UNCHANGED <<progressFile, libraryFiles, catalogExists, diag, firstCatalog,
                   today, titleQuery, found, sel, shown, local, ret, displayed,
                   cancelled, atCall, atReload, interfered, lastPage, lastDate>>
    /\ UNCHANGED searchVars
    /\ UNCHANGED <<inputVars, fzfVars, generateVars, filterVars>>

\* search.py --title QUERY: search_catalog and display_results
LegacySearch(p) ==
    /\ ppc[p] = "legacy"
    /\ LET r == TitleMatches(load_catalog, titleQuery[p])
       IN  /\ found' = [found EXCEPT ![p] = r]
           /\ IF r = <<>>
              THEN /\ out' = Says(p, "No results found.", <<>>)
                   /\ ppc' = Goes(p, "done")
              ELSE /\ out' = Says(p, "Found result(s)",
                                  [i \in 1..Len(r) |-> r[i].id])
                   /\ ppc' = Goes(p, "choose")
    /\ UNCHANGED <<progressFile, libraryFiles, catalogExists, diag, firstCatalog,
                   today, mode, setPage, titleQuery, sel, shown, local, ret,
                   displayed, cancelled, atCall, atReload, interfered, lastPage,
                   lastDate>>
    /\ UNCHANGED searchVars
    /\ UNCHANGED <<inputVars, fzfVars, generateVars, filterVars>>

\* one round of search.py's selection loop on the answer c; on an ordinal of
\* the list open_file(file_path) launches the viewer, or cannot
LegacyChoose(p, c) ==
    /\ ppc[p] = "choose"
    /\ choice' = c
    /\ LET t == Strip(c)
       IN  IF Lower(t) = <<"q">>
           THEN /\ ppc' = Goes(p, "done")
                /\ UNCHANGED <<out, legacyOpened>>
           ELSE IF IsDigit(Strip(t))
                THEN IF 1 <= IntOf(t) /\ IntOf(t) <= Len(found[p])
                     THEN /\ LET id == found[p][IntOf(t)].id
                             IN  IF id \notin libraryFiles
                                 THEN /\ out' = Says(p, "Error: File not found",
                                                     <<>>)
                                      /\ UNCHANGED legacyOpened
                                 ELSE \/ /\ legacyOpened' = Append(legacyOpened, id)
                                         /\ out' = Says(p, "Opening", <<id>>)
                                      \/ /\ out' = Says(p, "Error opening file",
                                                        <<>>)
                                         /\ UNCHANGED legacyOpened
                          /\ ppc' = Goes(p, "done")
                     ELSE /\ out' = Says(p, "Please enter a number between 1 and N",
                                         <<>>)
                          /\ UNCHANGED <<ppc, legacyOpened>>
                ELSE /\ out' = Says(p, "Please enter a valid number or 'q' to quit",
                                    <<>>)
                     /\ UNCHANGED <<ppc, legacyOpened>>
    /\ UNCHANGED <<progressFile, libraryFiles, catalogExists, diag, firstCatalog,
                   today, mode, setPage, titleQuery, found, sel, shown, local, ret,
                   displayed, cancelled, atCall, atReload, interfered, lastPage,
                   lastDate>>
    /\ UNCHANGED pageArg
    /\ UNCHANGED <<fzfVars, generateVars, filterVars>>
    /\ UNCHANGED searchVars

\* Ctrl-C at the prompt of search.py
LegacyInterrupt(p) ==
    /\ ppc[p] = "choose"
    /\ out' = Says(p, "Quitting...", <<>>)
    /\ ppc' = Goes(p, "done")
    /\ UNCHANGED <<progressFile, libraryFiles, catalogExists, diag, firstCatalog,
                   today, mode, setPage, titleQuery, found, sel, shown, local, ret,
                   displayed, cancelled, atCall, atReload, interfered, lastPage,
                   lastDate>>
    /\ UNCHANGED searchVars
    /\ UNCHANGED <<inputVars, fzfVars, generateVars, filterVars>>

InitInput ==
    /\ catalogFile = ProgressCatalog
    /\ catalogExists = TRUE
    /\ query \in ProgressQueries
    /\ progressFile \in {Absent, Stored(1 :> EarlierRecord)}
    /\ libraryFiles \in {ProgressIds, ProgressIds \ {1}}
    /\ mode \in [Procs -> {"cli_args", "fzf_args", "legacy", "off"}]
    /\ mode[1] # "off"
    /\ \A p \in Procs \ {1} : mode[p] = "off"
    /\ pageArg \in [Procs -> InputTexts]
    /\ \A p \in Procs : mode[p] \notin {"cli_args", "fzf_args"} => pageArg[p] = <<>>
    /\ choice = <<>>
    /\ legacyOpened = <<>>
    /\ NoFzf
    /\ NoGenerate
    /\ NoFilter
    /\ ProgressStart

NextInput ==
    \E p \in Procs :
        \/ ParseArgs(p)
        \/ LegacySearch(p)
        \/ \E c \in InputTexts : LegacyChoose(p, c)
        \/ LegacyInterrupt(p)
        \/ MainSearch(p)
        \/ \E id \in ProgressIds : Select(p, id)
        \/ Cancel(p)
        \/ OpenFile(p)
        \/ ViewerLaunched(p)
        \/ ViewerFailed(p)
        \/ UpdateProgress(p)
        \/ SaveOpen(p)
        \/ SaveWrite(p)
        \/ NotesDone(p)
        \/ UpdatePageCommand(p)

SpecInput == InitInput /\ [][NextInput]_vars

----------------------------------------------------------------------------
(* run_fzf_search: the lines handed to fzf and the entry of the chosen line *)

\* the widths format_entry_for_fzf cuts the title and the author to
TitleWidth == 70

AuthorWidth == 30

\* s[:n]
Take(s, n) == SubSeq(s, 1, IF Len(s) < n THEN Len(s) ELSE n)

\* str.upper() on one character
UpperChar(c) ==
    CASE c = "p" -> "P"
      [] c = "d" -> "D"
      [] c = "f" -> "F"
      [] c = "e" -> "E"
      [] c = "u" -> "U"
      [] c = "b" -> "B"
      [] OTHER -> c

\* format_entry_for_fzf(entry, progress_data): "TITLE (AUTHOR) [DDC] TYPE";
\* a key the entry lacks is None here
format_entry_for_fzf(e) ==
    LET title == Take(IF e.title = None THEN <<"U", "n", "k", "n", "o", "w", "n">>
                      ELSE e.title[1], TitleWidth)
        author == IF e.author # None /\ e.author[1] # <<>>
                  THEN Take(e.author[1], AuthorWidth) ELSE <<>>
        d == IF e.ddc = None THEN <<"-", "-", "-">> ELSE e.ddc[1]
        ft == IF e.file_type = None THEN <<"p", "d", "f">> ELSE e.file_type[1]
        type == [i \in 1..Len(ft) |-> UpperChar(ft[i])]
    IN  IF author # <<>>
        THEN title \o <<" ", "(">> \o author \o <<")", " ", "[">> \o d
                   \o <<"]", " ">> \o type
        ELSE title \o <<" ", "[">> \o d \o <<"]", " ">> \o type

\* fzf_lines after the loop over the entries, each f"{entry_id}\t{fzf_line}"
FzfLines(es) ==
    [i \in 1..Len(es) |-> es[i].id \o <<"\t">> \o format_entry_for_fzf(es[i])]

\* id_map after the loop: a later entry replaces an earlier one of the same id
IdMap(es) ==
    [id \in {es[i].id : i \in 1..Len(es)} |->
        es[CHOOSE i \in 1..Len(es) :
              /\ es[i].id = id
              /\ \A j \in 1..Len(es) : es[j].id = id => j <= i]]

\* mutant: the whole line is taken for the id
SelectedIdWhole(l) == l

\* selected.split("\t")[0]
RECURSIVE SelectedId(_)
SelectedId(l) ==
    IF l = <<>> \/ Head(l) = "\t" THEN <<>>
    ELSE <<Head(l)>> \o SelectedId(Tail(l))

\* what run_fzf_search returns when fzf ended with status 0 and printed text
Resolved(es, stdout) ==
    IF Strip(stdout) = <<>> THEN None
    ELSE LET entry_id == SelectedId(Strip(stdout))
         IN  IF entry_id \in DOMAIN IdMap(es) THEN Some(IdMap(es)[entry_id])
             ELSE None

LongTitle == [i \in 1..(TitleWidth + 1) |-> "t"]

LongAuthor == [i \in 1..(AuthorWidth + 1) |-> "a"]

FzfPool ==
    { [id |-> <<"1", "0", "0", "0", "0", "1">>, title |-> Some(<<"T">>),
       author |-> None, ddc |-> None, file_type |-> Some(<<"p", "d", "f">>)],
      [id |-> <<"1", "0", "0", "0", "0", "2">>, title |-> Some(LongTitle),
       author |-> Some(LongAuthor), ddc |-> Some(<<"1", "0", "0">>),
       file_type |-> Some(<<"e", "p", "u", "b">>)],
      [id |-> <<"1", "0", "0", "0", "0", "1">>, title |-> Some(<<"S", " ">>),
       author |-> Some(<<"B">>), ddc |-> Some(<<"1", "0", "0">>),
       file_type |-> None],
      [id |-> <<"M", "y", "0", "0", "3">>, title |-> None,
       author |-> Some(<<>>), ddc |-> None, file_type |-> Some(<<"p", "d", "f">>)] }

\* run_fzf_search up to the start of fzf
FormatLines ==
    /\ fpc = "call"
    /\ IF entries = <<>>
       THEN /\ fpc' = "returned"
            /\ UNCHANGED fzf_lines
       ELSE /\ fzf_lines' = FzfLines(entries)
            /\ fpc' = "fzf"
    /\ UNCHANGED <<entries, picked, returned>>
    /\ UNCHANGED <<searchVars, progressVars, inputVars, generateVars, filterVars>>

\* the user chooses the i-th line: fzf prints it and ends with status 0
FzfSelect(i) ==
    /\ fpc = "fzf"
    /\ i \in 1..Len(fzf_lines)
    /\ picked' = i
    /\ returned' = Resolved(entries, fzf_lines[i] \o <<"\n">>)
    /\ fpc' = "returned"
    /\ UNCHANGED <<entries, fzf_lines>>
    /\ UNCHANGED <<searchVars, progressVars, inputVars, generateVars, filterVars>>

\* the user leaves fzf without a choice (a status other than 0, or Ctrl-C
\* reaching Python), or fzf cannot be started
FzfNoSelection ==
    /\ fpc = "fzf"
    /\ picked' = 0
    /\ returned' = None
    /\ fpc' = "returned"
    /\ UNCHANGED <<entries, fzf_lines>>
    /\ UNCHANGED <<searchVars, progressVars, inputVars, generateVars, filterVars>>

\* the search variables of a run that makes no search
NoSearch ==
    /\ catalogFile = <<>>
    /\ pc = "off"
    /\ query = None
    /\ field = NoField
    /\ file_type = None
    /\ ddc = None
    /\ fuzzy = TRUE
    /\ catalog = <<>>
    /\ results = <<>>
    /\ sq = <<>>
    /\ st = <<>>
    /\ sscore = Zero

InitFzf ==
    /\ entries \in UNION {[1..n -> FzfPool] : n \in 0..MaxCands}
    /\ fzf_lines = <<>>
    /\ picked = 0
    /\ returned = None
    /\ fpc = "call"
    /\ NoSearch
    /\ NoProgress
    /\ NoInput
    /\ NoGenerate
    /\ NoFilter

NextFzf ==
    \/ FormatLines
    \/ \E i \in 1..MaxCands : FzfSelect(i)
    \/ FzfNoSelection

SpecFzf == InitFzf /\ [][NextFzf]_vars

----------------------------------------------------------------------------
(* generate_catalog.py: the catalog written for the files of the library    *)

\* ord(c), for the characters of the names used here
CodePoint(c) ==
    CASE c = "." -> 46
      [] c = "/" -> 47
      [] c = "0" -> 48
      [] c = "1" -> 49
      [] c = "5" -> 53
      [] c = "C" -> 67
      [] c = "I" -> 73
      [] c = "M" -> 77
      [] c = "P" -> 80
      [] c = "R" -> 82
      [] c = "S" -> 83
      [] c = "_" -> 95
      [] c = "a" -> 97
      [] c = "b" -> 98
      [] c = "c" -> 99
      [] c = "d" -> 100
      [] c = "e" -> 101
      [] c = "f" -> 102
      [] c = "g" -> 103
      [] c = "h" -> 104
      [] c = "i" -> 105
      [] c = "j" -> 106
      [] c = "l" -> 108
      [] c = "n" -> 110
      [] c = "o" -> 111
      [] c = "p" -> 112
      [] c = "r" -> 114
      [] c = "s" -> 115
      [] c = "u" -> 117
      [] c = "x" -> 120
      [] c = "y" -> 121
      [] OTHER -> 0

\* a < b on Python strings
RECURSIVE StrLess(_, _)
StrLess(a, b) ==
    IF b = <<>> THEN FALSE
    ELSE IF a = <<>> THEN TRUE
    ELSE IF Head(a) = Head(b) THEN StrLess(Tail(a), Tail(b))
    ELSE CodePoint(Head(a)) < CodePoint(Head(b))

\* the keys of CATEGORY_INFO that name a directory of the modelled library
CATEGORY_INFO == {<<"1", "0", "0", "_", "P", "h", "i", "l", "o", "s", "o", "p", "h", "y">>,
                  <<"5", "0", "0", "_", "S", "c", "i", "e", "n", "c", "e">>,
                  <<"M", "y", "_", "R", "e", "s", "e", "a", "r", "c", "h">>}

\* str.endswith
EndsWith(t, e) ==
    Len(e) <= Len(t) /\ SubSeq(t, Len(t) - Len(e) + 1, Len(t)) = e

\* the files a library can hold, in a category directory itself (<<>>) or
\* in its subdirectory x or y
FilePool ==
    {[cat |-> <<"1", "0", "0", "_", "P", "h", "i", "l", "o", "s", "o", "p", "h", "y">>, dir |-> d, name |-> n] :
        d \in {<<>>, <<"x">>, <<"y">>},
        n \in {<<"a", ".", "p", "d", "f">>, <<"b", ".", "e", "p", "u", "b">>}}
    \cup {[cat |-> <<"M", "y", "_", "R", "e", "s", "e", "a", "r", "c", "h">>, dir |-> <<>>, name |-> <<"a", ".", "p", "d", "f">>],
          [cat |-> <<"M", "y", "_", "R", "e", "s", "e", "a", "r", "c", "h">>, dir |-> <<>>, name |-> <<"b", ".", "e", "p", "u", "b">>],
          [cat |-> <<"1", "0", "0", "_", "P", "h", "i", "l", "o", "s", "o", "p", "h", "y">>, dir |-> <<>>, name |-> <<"c", ".", "j", "p", "g">>],
          [cat |-> <<"M", "C", "I">>, dir |-> <<>>, name |-> <<"a", ".", "p", "d", "f">>],
          [cat |-> <<"I", "n", "b", "o", "x">>, dir |-> <<>>, name |-> <<"a", ".", "p", "d", "f">>]}

\* f is visited before g by the loops over sorted(LIBRARY_ROOT.iterdir()),
\* os.walk(category_dir) and sorted(files)
VisitedBefore(f, g, order) ==
    LET rank(d) == IF d = <<>> THEN 0
                   ELSE CHOOSE k \in 1..Len(order) : order[k] = d
    IN  \/ StrLess(f.cat, g.cat)
        \/ /\ f.cat = g.cat
           /\ \/ rank(f.dir) < rank(g.dir)
              \/ f.dir = g.dir /\ StrLess(f.name, g.name)

\* the files that get an entry: in a directory that is a key of
\* CATEGORY_INFO (not hidden, not MCI), with a document extension
Catalogued(lib) ==
    {f \in lib : /\ f.cat \in CATEGORY_INFO
                 /\ Head(f.cat) # "."
                 /\ f.cat # <<"M", "C", "I">>
                 /\ \E e \in {<<".", "p", "d", "f">>, <<".", "e", "p", "u", "b">>,
                               <<".", "m", "d">>, <<".", "h", "t", "m", "l">>,
                               <<".", "t", "x", "t">>} :
                       EndsWith(f.name, e)}

\* the files in the order the loops visit them
RECURSIVE Visit(_, _)
Visit(fs, order) ==
    IF fs = {} THEN <<>>
    ELSE LET f == CHOOSE x \in fs :
                     \A y \in fs \ {x} : VisitedBefore(x, y, order)
         IN  <<f>> \o Visit(fs \ {f}, order)

\* the text before the first occurrence of c: s.split(c)[0]
RECURSIVE BeforeFirst(_, _)
BeforeFirst(s, c) ==
    IF s = <<>> \/ Head(s) = c THEN <<>>
    ELSE <<Head(s)>> \o BeforeFirst(Tail(s), c)

DigitChar(n) ==
    CASE n = 0 -> "0" [] n = 1 -> "1" [] n = 2 -> "2" [] n = 3 -> "3"
      [] n = 4 -> "4" [] n = 5 -> "5" [] n = 6 -> "6" [] n = 7 -> "7"
      [] n = 8 -> "8" [] OTHER -> "9"

\* str(n) of a natural number
RECURSIVE Decimal(_)
Decimal(n) ==
    IF n < 10 THEN <<DigitChar(n)>>
    ELSE Decimal(n \div 10) \o <<DigitChar(n % 10)>>

\* f"{n:03d}"
RECURSIVE ZeroPad(_, _)
ZeroPad(t, width) ==
    IF Len(t) >= width THEN t ELSE ZeroPad(<<"0">> \o t, width)

IdWidth == 3

\* mutant: the counter is never incremented
CounterStuck(i) == 1

\* the value of counter when the i-th catalogued file is reached: it starts
\* at 1 and is incremented once per entry, across the categories
CounterAt(i) == i

\* entry_id = f"{category_short}{counter:03d}"
EntryId(cat, counter) ==
    BeforeFirst(cat, "_") \o ZeroPad(Decimal(counter), IdWidth)

\* str(relative_path)
RelativePath(f) ==
    f.cat \o <<"/">> \o (IF f.dir = <<>> THEN <<>> ELSE f.dir \o <<"/">>)
          \o f.name

\* generate_catalog(): the list of entries, of which the id and the path
\* are kept here
generate_catalog(lib, order) ==
    LET visited == Visit(Catalogued(lib), order)
    IN  [i \in 1..Len(visited) |->
            [id |-> EntryId(visited[i].cat, CounterAt(i)),
             file_path |-> RelativePath(visited[i])]]

\* dlm-catalog is run
Generate ==
    /\ previous' = generated
    /\ generated' = Some(generate_catalog(library, scanOrder))
    /\ UNCHANGED <<library, scanOrder>>
    /\ UNCHANGED <<searchVars, progressVars, inputVars, fzfVars, filterVars>>

\* a file is put into the library after a catalog was generated
AddFile(f) ==
    /\ generated # None
    /\ f \notin library
    /\ Cardinality(library) <= MaxFiles
    /\ library' = library \cup {f}
    /\ UNCHANGED <<scanOrder, generated, previous>>
    /\ UNCHANGED <<searchVars, progressVars, inputVars, fzfVars, filterVars>>

InitGenerate ==
    /\ library \in {l \in SUBSET FilePool : Cardinality(l) <= MaxFiles}
    /\ scanOrder \in {<<<<"x">>, <<"y">>>>, <<<<"y">>, <<"x">>>>}
    /\ generated = None
    /\ previous = None
    /\ NoSearch
    /\ NoProgress
    /\ NoInput
    /\ NoFzf
    /\ NoFilter

NextGenerate ==
    \/ Generate
    \/ \E f \in FilePool : AddFile(f)

SpecGenerate == InitGenerate /\ [][NextGenerate]_vars

----------------------------------------------------------------------------
(* filter_catalog: the name "filtered" is bound first to the caller's list  *)
(* and then to the lists the comprehensions build; list.sort() changes the  *)
(* list object "filtered" is bound to at that moment                        *)

\* the two list objects in play, the caller's and the latest new one, and
\* the one "filtered" refers to
Content(s) == IF s.ref = "catalog" THEN s.catalog ELSE s.new

\* filtered = [e for e in filtered if ...]: a new list object
Rebound(s, l) == [ref |-> "new", catalog |-> s.catalog, new |-> l]

\* list.sort(key=..., reverse=True): greatest key first, equal keys in their
\* former order; the key is progress_data.get(x["id"], {}).get("last_opened",
\* ""), the least key being 0 for ""
RECURSIVE SortedRecentFirst(_, _)
SortedRecentFirst(l, pd) ==
    IF l = <<>> THEN <<>>
    ELSE LET key(e) == IF e.id \in DOMAIN pd /\ "last_opened" \in DOMAIN pd[e.id]
                       THEN pd[e.id]["last_opened"] ELSE 0
             i == CHOOSE k \in 1..Len(l) :
                     /\ \A j \in 1..Len(l) : key(l[j]) <= key(l[k])
                     /\ \A j \in 1..(k - 1) : key(l[j]) < key(l[k])
         IN  <<l[i]>> \o SortedRecentFirst(SubSeq(l, 1, i - 1)
                                             \o SubSeq(l, i + 1, Len(l)), pd)

DdcFiltered(s, d) ==
    IF Truthy(d)
    THEN Rebound(s, SelectSeq(Content(s), LAMBDA e : e.ddc # <<>> /\ StartsWith(e.ddc, d[1])))
    ELSE s

FileTypeFiltered(s, ft) ==
    IF Truthy(ft)
    THEN Rebound(s, SelectSeq(Content(s),
                              LAMBDA e : Lower(e.file_type) = Lower(ft[1])))
    ELSE s

\* mutant: the recent branch sorts without building a list first
RecentUnselected(s, pd) == s

\* filtered = [e for e in filtered if e.get("id") in progress_data]
RecentSelected(s, pd) ==
    Rebound(s, SelectSeq(Content(s), LAMBDA e : e.id \in DOMAIN pd))

\* the recent branch: filtered.sort(...) sorts in place the object that
\* "filtered" refers to
RecentFiltered(s, recent, pd) ==
    IF recent
    THEN LET t == RecentSelected(s, pd)
         IN  IF t.ref = "catalog"
             THEN [t EXCEPT !.catalog = SortedRecentFirst(t.catalog, pd)]
             ELSE [t EXCEPT !.new = SortedRecentFirst(t.new, pd)]
    ELSE s

InProgressFiltered(s, in_progress, pd) ==
    IF in_progress
    THEN Rebound(s, SelectSeq(Content(s),
                              LAMBDA e : e.id \in DOMAIN pd
                                         /\ "page" \in DOMAIN pd[e.id]))
    ELSE s

\* filter_catalog(catalog, ddc, file_type, recent, in_progress), where
\* neither branch that loads the progress file fails
filter_catalog(l, o, pd) ==
    InProgressFiltered(
        RecentFiltered(
            FileTypeFiltered(
                DdcFiltered([ref |-> "catalog", catalog |-> l, new |-> <<>>],
                            o.ddc),
                o.file_type),
            o.recent, pd),
        o.in_progress, pd)

\* one call of filter_catalog; load_progress() is called by the recent and
\* the in_progress branch
FilterCatalog ==
    /\ flpc = "call"
    /\ IF (options.recent \/ options.in_progress) /\ ~load_progress(fprogress).ok
       THEN /\ flpc' = "raised"
            /\ listArg' = FileTypeFiltered(
                              DdcFiltered([ref |-> "catalog", catalog |-> listArg,
                                           new |-> <<>>], options.ddc),
                              options.file_type).catalog
            /\ UNCHANGED filtered
       ELSE LET s == filter_catalog(listArg, options, load_progress(fprogress).data)
            IN  /\ flpc' = "returned"
                /\ listArg' = s.catalog
                /\ filtered' = Content(s)
    /\ UNCHANGED <<listGiven, options, fprogress>>
    /\ UNCHANGED <<searchVars, progressVars, inputVars, fzfVars, generateVars>>

InitFilter ==
    /\ \E ids \in UNION {[1..n -> ProgressIds] : n \in 0..MaxCatalog} :
          /\ listArg = [i \in 1..Len(ids) |-> ProgressCatalog[ids[i]]]
          /\ listGiven = listArg
    /\ options \in
          [ddc : {None, Some(<<"7", "8">>), Some(<<"7", "8", "0">>)},
           file_type : {None, Some(<<"P", "D", "F">>), Some(<<"e", "p", "u", "b">>)},
           recent : BOOLEAN, in_progress : BOOLEAN]
    /\ fprogress \in
          {Absent, Corrupt,
           Stored((1 :> [page |-> 1, last_opened |-> 1])
                  @@ (2 :> [last_opened |-> 2])
                  @@ (3 :> [page |-> 0, last_opened |-> 2])),
           Stored((3 :> [last_opened |-> 1]) @@ (1 :> EmptyMap))}
    /\ filtered = <<>>
    /\ flpc = "call"
    /\ NoSearch
    /\ NoProgress
    /\ NoInput
    /\ NoFzf
    /\ NoGenerate

SpecFilter == InitFilter /\ [][FilterCatalog]_vars

----------------------------------------------------------------------------
(* What the specification of the search says, stated apart from the model    *)
(* of the code above                                                         *)

Searched == pc = "searched"

\* a text search: a query is given and no classification filter
TextSearch == Searched /\ Truthy(query) /\ ~Truthy(ddc)

\* the ids of the results, in result order
ResultIds == [i \in 1..Len(results) |-> results[i].id]

InResults(id) == \E i \in 1..Len(results) : results[i].id = id

HasScore(e) == "_score" \in DOMAIN e

\* the entry passes the file_type filter of the call (or there is none)
PassesFileType(e) ==
    file_type = None \/ file_type[1] = <<>> \/ Lower(e.file_type) = Lower(file_type[1])

\* the greatest score of a non-empty set of scores
Greatest(S) == CHOOSE x \in S : \A y \in S : ScoreGE(x, y)

\* the maximum over the subject strings, 0 when there are none
MaxSubjectScore(q, e) ==
    Greatest({Zero} \cup {fuzzy_match(q, e.subjects[i]) : i \in 1..Len(e.subjects)})

\* the score the specification gives an entry in a text search
SpecScoreOf(q, f, e) ==
    CASE f = "title" -> fuzzy_match(q, e.title)
      [] f = "author" -> fuzzy_match(q, e.author)
      [] f = "category" -> fuzzy_match(q, e.category)
      [] f = "subject" -> MaxSubjectScore(q, e)
      [] f = NoField ->
            Greatest({fuzzy_match(q, e.title), fuzzy_match(q, e.author),
                      fuzzy_match(q, e.category), MaxSubjectScore(q, e)})

\* p is a literal prefix of the string s
IsPrefix(p, s) == Len(p) <= Len(s) /\ SubSeq(s, 1, Len(p)) = p

\* lowercase q occurs in lowercase t
OccursIn(q, t) ==
    \E i \in 1..(Len(t) - Len(q) + 1) :
        SubSeq(Lower(t), i, i + Len(q) - 1) = Lower(q)

\* the subsequence of the catalog file's ids whose entries pass the file_type filter
RECURSIVE PassingIdsFrom(_)
PassingIdsFrom(n) ==
    IF n > Len(catalogFile) THEN <<>>
    ELSE (IF PassesFileType(catalogFile[n]) THEN <<catalogFile[n].id>> ELSE <<>>)
         \o PassingIdsFrom(n + 1)

\* the entry the result r was made from
Origin(r) == catalogFile[r.id]

\* r is its catalog entry with nothing changed but the score attached
SameButScore(r) == \A k \in DOMAIN Origin(r) : r[k] = Origin(r)[k]

----------------------------------------------------------------------------
(* The claims *)

\* C1: the results of search_catalog are in descending score order, and two
\* results of equal score are in the order they have in the catalog.
C1_RankedStable ==
    Searched =>
        \A i, j \in 1..Len(results) :
            i < j =>
                /\ ScoreGE(GetScore(results[i]), GetScore(results[j]))
                /\ GetScore(results[i]) = GetScore(results[j])
                       => results[i].id < results[j].id

\* C1 witness: a search whose ranking moved an entry ahead of an earlier one
\* and kept two entries that tie below 1.0 in catalog order.
C1_Witness ==
    /\ TextSearch
    /\ \E i, j \in 1..Len(results) : i < j /\ results[i].id > results[j].id
    /\ \E i, j \in 1..Len(results) :
            /\ i < j
            /\ GetScore(results[i]) = GetScore(results[j])
            /\ GetScore(results[i]) # One

\* C2: after a search every entry of the loaded catalog has the fields and
\* values it was loaded with, and the catalog's order is unchanged.
C2_CatalogUnchanged == Searched => catalog = catalogFile

\* C3: in a text search an entry that reaches the scoring is in the result
\* iff its score is >= 0.6 (fuzzy) or exactly 1.0 (not fuzzy), in every field mode.
C3_Threshold ==
    TextSearch =>
        \A n \in 1..Len(catalogFile) :
            LET e == catalogFile[n]
                sc == SpecScoreOf(query[1], field, e)
            IN  PassesFileType(e) =>
                    (InResults(e.id) <=>
                        IF fuzzy THEN ScoreGE(sc, FuzzyThreshold) ELSE sc = One)

\* C3 witness: a fuzzy text search that keeps an entry scoring exactly 0.6 and
\* drops one scoring less.
C3_Witness ==
    /\ TextSearch
    /\ fuzzy
    /\ \E i \in 1..Len(results) : GetScore(results[i]) = FuzzyThreshold
    /\ \E n \in 1..Len(catalogFile) :
            /\ ~InResults(n)
            /\ PassesFileType(catalogFile[n])
            /\ SpecScoreOf(query[1], field, catalogFile[n]) # Zero

\* C4: in a text search the score of a result is the scorer's score of the
\* named field (for subject the maximum over the subjects, 0 with none), and
\* with no field the maximum of the title, author, category and subject scores.
C4_EntryScore ==
    TextSearch =>
        \A i \in 1..Len(results) :
            /\ HasScore(results[i])
            /\ results[i]["_score"] = SpecScoreOf(query[1], field, Origin(results[i]))

\* C4 witness: an all-fields search whose result takes its score from a
\* subject, above its title, author and category scores.
C4_Witness ==
    /\ TextSearch
    /\ field = NoField
    /\ \E i \in 1..Len(results) :
        LET e == Origin(results[i])
            q == query[1]
        IN  /\ GetScore(results[i]) = MaxSubjectScore(q, e)
            /\ ~ScoreGE(fuzzy_match(q, e.title), GetScore(results[i]))
            /\ ~ScoreGE(fuzzy_match(q, e.author), GetScore(results[i]))
            /\ ~ScoreGE(fuzzy_match(q, e.category), GetScore(results[i]))

\* C5: with a file_type filter no entry whose file_type differs from it
\* (case-insensitively) is in the result, whatever the query, field,
\* classification filter or fuzzy flag.
C5_FileTypeFilter ==
    (Searched /\ Truthy(file_type)) =>
        \A i \in 1..Len(results) :
            Lower(results[i].file_type) = Lower(file_type[1])

\* C5 witness: a filtered search that returns an entry and leaves out an entry
\* of another type that the classification filter alone would have matched.
C5_Witness ==
    /\ Searched
    /\ Truthy(file_type)
    /\ Truthy(ddc)
    /\ results # <<>>
    /\ \E n \in 1..Len(catalogFile) :
            /\ ~InResults(n)
            /\ ~PassesFileType(catalogFile[n])
            /\ IsPrefix(ddc[1], catalogFile[n].ddc)

C7_QueryIgnored ==
    (Searched /\ Truthy(ddc)) =>
        results = SearchResults(catalogFile, None, NoField, file_type, ddc, TRUE)

\* C7 witness: a classification search given a query, a field and fuzzy off,
\* which returns an entry that the text search alone would not match.
C7_Witness ==
    /\ Searched
    /\ Truthy(ddc)
    /\ Truthy(query)
    /\ field # NoField
    /\ ~fuzzy
    /\ \E i \in 1..Len(results) :
            ~ScoreGE(SpecScoreOf(query[1], field, Origin(results[i])), FuzzyThreshold)

\* C8 as stated: with no query text and no classification filter the result is
\* the entries that pass the file_type filter, in catalog order, each with
\* score 1.0.
C8_ListingScored ==
    (Searched /\ ~Truthy(query) /\ ~Truthy(ddc)) =>
        /\ ResultIds = PassingIdsFrom(1)
        /\ \A i \in 1..Len(results) :
            /\ SameButScore(results[i])
            /\ HasScore(results[i])
            /\ results[i]["_score"] = One

\* C8 as amended: with no query text and no classification filter the result is
\* the entries that pass the file_type filter, in catalog order; each has score
\* 1.0 when a field or a file_type filter is given, and with neither the
\* entries are returned as loaded, with no score attached.
C8_Listing ==
    (Searched /\ ~Truthy(query) /\ ~Truthy(ddc)) =>
        /\ ResultIds = PassingIdsFrom(1)
        /\ \A i \in 1..Len(results) : SameButScore(results[i])
        /\ IF field = NoField /\ ~Truthy(file_type)
           THEN results = catalogFile
           ELSE \A i \in 1..Len(results) :
                    HasScore(results[i]) /\ results[i]["_score"] = One

\* C8 witness: the empty query with a file_type filter, over a catalog from
\* which the filter keeps two entries and drops one between them.
C8_Witness ==
    /\ Searched
    /\ query = Some(<<>>)
    /\ ~Truthy(ddc)
    /\ Truthy(file_type)
    /\ Len(results) = 2
    /\ results[1].id + 1 < results[2].id
    /\ GetScore(results[1]) = One

\* C9: a non-empty query that occurs in the text, both lowercased, scores
\* exactly 1.0, and every score lies in [0, 1].
C9_SubstringPrivilege ==
    pc = "scored" =>
        /\ (sq # <<>> /\ OccursIn(sq, st)) => sscore = One
        /\ ScoreGE(sscore, Zero)
        /\ ScoreGE(One, sscore)

\* C9 witness: a query that occurs in a longer text only once both are lowercased.
C9_Witness ==
    /\ pc = "scored"
    /\ sq # <<>>
    /\ Len(st) > Len(sq)
    /\ OccursIn(sq, st)
    /\ ~IsSubstring(sq, st)
    /\ sscore = One

\* the text of the field a one-field search looks at (the subjects apart)
FieldText(f, e) ==
    CASE f = "title" -> e.title
      [] f = "author" -> e.author
      [] f = "category" -> e.category

\* C10: a non-empty query scores 0.0 against the empty text, which is below
\* both thresholds; and a text search of one field never returns an entry
\* whose text in that field is empty (for subject: that has no subject).
C10_EmptyText ==
    /\ (pc = "scored" /\ sq # <<>> /\ st = <<>>) =>
            /\ sscore = Zero
            /\ ~MeetsThreshold(sscore, TRUE)
            /\ ~MeetsThreshold(sscore, FALSE)
    /\ (TextSearch /\ field # NoField) =>
            \A i \in 1..Len(results) :
                IF field = "subject"
                THEN Origin(results[i]).subjects # <<>>
                ELSE FieldText(field, Origin(results[i])) # <<>>

\* C10 witness: a query of two characters or more scored against the empty text.
C10_Witness ==
    /\ pc = "scored"
    /\ Len(sq) >= 2
    /\ st = <<>>
    /\ sscore = Zero

\* C11: for the same catalog, query, field and filters, every entry the search
\* returns with fuzzy off is also returned with fuzzy on.
C11_ExactWithinFuzzy ==
    (Searched /\ ~fuzzy) =>
        LET fuzzyResults ==
                SearchResults(catalogFile, query, field, file_type, ddc, TRUE)
        IN  \A i \in 1..Len(results) :
                \E j \in 1..Len(fuzzyResults) : fuzzyResults[j].id = results[i].id

\* C11 witness: an exact text search that returns an entry while the fuzzy
\* search of the same call returns more.
C11_Witness ==
    /\ TextSearch
    /\ ~fuzzy
    /\ results # <<>>
    /\ Len(SearchResults(catalogFile, query, field, file_type, ddc, TRUE))
           > Len(results)

\* the scenario's call: "Beetoven" over the two Beethoven titles, no field,
\* no filters
BeetovenCall ==
    /\ Searched
    /\ catalogFile = BeethovenCatalog
    /\ query = Some(Beetoven)
    /\ field = NoField
    /\ file_type = None
    /\ ddc = None

\* C12 as stated: "Beetoven" returns both Beethoven titles with fuzzy on and
\* nothing with fuzzy off.
C12_BothReturned ==
    BeetovenCall =>
        IF fuzzy THEN ResultIds = <<1, 2>> ELSE results = <<>>

\* C12 as amended: with fuzzy on "Beetoven" returns "Beethoven Sonatas" alone,
\* at 16/25 = 0.64 ("Beethoven Symphonies" scores 16/28, below 0.6), and with
\* fuzzy off it returns nothing.
C12_SonatasOnly ==
    BeetovenCall =>
        IF fuzzy
        THEN /\ ResultIds = <<1>>
             /\ GetScore(results[1]) = <<16, 25>>
             /\ fuzzy_match(Beetoven, BeethovenCatalog[2].title) = <<4, 7>>
        ELSE results = <<>>

\* C12 witness: the scenario's fuzzy call has returned one entry.
C12_Witness == BeetovenCall /\ fuzzy /\ Len(results) = 1

----------------------------------------------------------------------------
(* What the specification of the progress overlay says *)

\* the persisted overlay, where the progress file holds one
Persisted == progressFile.kind \in {"absent", "ok"}

\* instance p is not in the middle of save_progress
Settled(p) == ppc[p] \notin {"save_open", "save_write"}

HasKey(d, id, key) == id \in DOMAIN d /\ key \in DOMAIN d[id]

\* the optional value of a key of the record of id
KeyOf(d, id, key) == IF HasKey(d, id, key) THEN Some(d[id][key]) ELSE None

\* both overlays hold the same record for id, or none
SameRecord(d1, d2, id) ==
    /\ (id \in DOMAIN d1) = (id \in DOMAIN d2)
    /\ id \in DOMAIN d1 => d1[id] = d2[id]

\* the ids of the catalog entries whose title contains tq, case-insensitively
MatchingIds(tq) ==
    {i \in 1..Len(catalogFile) :
        OccursIn(Lower(tq), Lower(catalogFile[i].title))}

\* C13: after any sequence of record_open and set_page operations of a single
\* process, the persisted record of every id has the page of the latest
\* operation that gave one (no page if none did) and the date of the latest
\* operation as last_opened; a record_open without a page keeps the page.
C13_LatestPageAndDate ==
    (Persisted /\ Settled(1)) =>
        \A id \in ProgressIds :
            /\ KeyOf(progressFile.data, id, "page") = lastPage[id]
            /\ KeyOf(progressFile.data, id, "last_opened") = lastDate[id]

\* C13 witness: the loop has opened, without a page and on the second day, the
\* entry whose record held page 1 from the first day: the page is kept.
C13_Witness ==
    /\ mode[1] = "loop"
    /\ ret[1] = "True"
    /\ sel[1] = 1
    /\ Settled(1)
    /\ progressFile = Stored(1 :> [page |-> 1, last_opened |-> 2])

\* C14: update_page_command writes only when exactly one title contains the
\* query: with two or more it prints the matches and ends with the progress
\* file as it was, with none it ends with the progress file as it was, and
\* with one it saves the page under that entry's id.
C14_UniqueTitleOnly ==
    mode[1] = "update_page" =>
        LET n == Cardinality(MatchingIds(titleQuery[1]))
        IN  /\ n # 1 => Settled(1) /\ progressFile = atCall[1]
            /\ (n > 1 /\ ppc[1] = "done") =>
                  /\ out[1].msg = "Multiple matches found"
                  /\ {out[1].ids[i] : i \in 1..Len(out[1].ids)}
                        = MatchingIds(titleQuery[1])
            /\ (n = 1 /\ ppc[1] = "done") =>
                  \A id \in MatchingIds(titleQuery[1]) :
                      KeyOf(progressFile.data, id, "page") = setPage[1]

\* C14 witness: the command has ended on a title query that two entries
\* match, over a progress file that holds a record.
C14_Witness ==
    /\ mode[1] = "update_page"
    /\ ppc[1] = "done"
    /\ Cardinality(MatchingIds(titleQuery[1])) = 2
    /\ progressFile = Stored(1 :> EarlierRecord)

\* C15: open_file changes the progress file only after the viewer was
\* launched: while the viewer is being launched, and after open_file returned
\* False, the progress file is what it was when open_file was called.
C15_OnlyAfterLaunch ==
    \A p \in {1} :
        (ppc[p] = "viewer" \/ ret[p] = "False") => progressFile = atCall[p]

\* C15 witness: open_file has returned False, for a missing file, over a
\* progress file that holds a record.
C15_Witness ==
    /\ ret[1] = "False"
    /\ out[1].msg = "Error: File not found"
    /\ progressFile = Stored(1 :> EarlierRecord)

\* C16: when the user leaves the prompt without a selection, main() ends, the
\* progress file is what it was before the prompt, and open_file is not called.
C16_CancelChangesNothing ==
    \A p \in {1} :
        cancelled[p] =>
            /\ ppc[p] = "done"
            /\ progressFile = atCall[p]
            /\ ret[p] = "-"
            /\ sel[p] = 0

\* C16 witness: the loop has opened an entry, come back to the prompt, and the
\* user has left it without a selection.
C16_Witness ==
    /\ cancelled[1]
    /\ mode[1] = "loop"
    /\ progressFile.kind = "ok"
    /\ progressFile.data # EmptyMap
    /\ progressFile # Stored(1 :> EarlierRecord)

\* C17 as stated: over a progress file that is not a JSON document, main(),
\* display_results and update_page_command go on as with an empty overlay:
\* no instance ends in an uncaught exception, and the prompt is reached with
\* the empty overlay loaded.
C17_CorruptReadsAsEmpty ==
    progressFile.kind = "corrupt" =>
        \A p \in Procs :
            /\ ppc[p] # "crashed"
            /\ ppc[p] = "prompt" => shown[p] = EmptyMap

\* C18 as stated: no load_progress() of one instance, made while another is
\* in save_progress, fails on a truncated or partly written file: over a
\* progress file that starts well-formed no instance ends in the uncaught
\* exception of json.load, and no open_file fails after the viewer's launch.
C18_AtomicSave ==
    \A p \in Procs :
        /\ ppc[p] # "crashed"
        /\ out[p].msg = "Error opening file" => atReload[p].kind \in {"absent", "ok"}

QueryOf(p) == IF mode[p] = "loop" THEN None ELSE query

\* C20: the results of a search are those of search_catalog on the catalog
\* and the arguments alone, whatever the progress file holds, and
\* display_results prints one line per result, in the order of the results,
\* with what the overlay holds for the entry as its annotation.
C20_ProgressOnlyAnnotates ==
    \A p \in Procs :
        /\ ppc[p] \in {"prompt", "display", "displayed"} =>
              found[p] = SearchResults(catalogFile, QueryOf(p), field,
                                       file_type, ddc, fuzzy)
        /\ ppc[p] = "displayed" =>
              /\ Len(displayed) = Len(found[p])
              /\ \A i \in 1..Len(displayed) :
                    /\ displayed[i].n = i
                    /\ displayed[i].id = found[p][i].id
                    /\ displayed[i].progress.page
                          = KeyOf(progressFile.data, found[p][i].id, "page")
                    /\ displayed[i].progress.last_opened
                          = KeyOf(progressFile.data, found[p][i].id, "last_opened")

\* C20 witness: display_results has printed a scored search of three
\* results, one with its page and date from the overlay, the others bare.
C20_Witness ==
    /\ ppc[1] = "displayed"
    /\ Len(displayed) = 3
    /\ Truthy(query)
    /\ \E i \in 1..3 : displayed[i].progress = [page |-> Some(1), last_opened |-> Some(1)]
    /\ \E i \in 1..3 : displayed[i].progress = [page |-> None, last_opened |-> None]

\* C28: a save of one process changes only the record of the entry it is
\* about: every id the overlay held when the mutation began is in the saved
\* file, with the same record unless it is that entry's, and that entry has
\* a record; and no step that leaves a JSON map in the file drops an id.
C28_OnlyThatRecord ==
    [][/\ (ppc[1] = "save_write" /\ ppc'[1] # "save_write") =>
              /\ progressFile'.kind = "ok"
              /\ sel[1] \in DOMAIN progressFile'.data
              /\ \A id \in DOMAIN load_progress(atReload[1]).data :
                    /\ id \in DOMAIN progressFile'.data
                    /\ id # sel[1] =>
                          progressFile'.data[id] = load_progress(atReload[1]).data[id]
       /\ progressFile'.kind = "ok" =>
              DOMAIN progressFile.data \subseteq DOMAIN progressFile'.data]_vars

\* C28 witness: an open of the second entry has been saved over a file that
\* held the first entry's record, which is still there unchanged.
C28_Witness ==
    /\ ret[1] = "True"
    /\ sel[1] = 2
    /\ progressFile.kind = "ok"
    /\ DOMAIN progressFile.data = {1, 2}
    /\ progressFile.data[1] = EarlierRecord

\* the search main() would make over a given list of entries
FoundOver(p, c) ==
    SearchResults(c, QueryOf(p), field, file_type, ddc, fuzzy)

\* C21: within one invocation of the interactive loop every search uses the
\* catalog contents of the invocation's first read, even when the catalog
\* file was written again in between: the candidates offered at the prompt
\* are the search over the first-read list.
C21_ReadOnce ==
    \A p \in Procs :
        (mode[p] = "loop" /\ ppc[p] = "prompt" /\ firstCatalog[p].read) =>
            found[p] = FoundOver(p, firstCatalog[p].list)

\* C22: a step of main() or of --update-page that loads a missing catalog
\* prints the diagnostic with the remedy and exits non-zero, with no search
\* result, no other output and the progress file untouched; a step of main()
\* that loads a catalog without entries prints the warning, finds nothing and
\* ends normally with "No results found.", the progress file untouched.
C22_MissingOrEmptyCatalog ==
    [][\A p \in Procs :
         (ppc[p] \in {"main", "update_page"} /\ ppc'[p] # ppc[p]) =>
             /\ ~catalogExists =>
                   /\ ppc'[p] = "exited"
                   /\ diag'[p] = "Error: Catalog not found. Run 'dlm-catalog'"
                   /\ found'[p] = found[p]
                   /\ out'[p] = out[p]
                   /\ progressFile' = progressFile
             /\ catalogExists => ppc'[p] # "exited"
             /\ (catalogExists /\ catalogFile = <<>> /\ ppc[p] = "main") =>
                   /\ diag'[p] = "Warning: Catalog is empty."
                   /\ found'[p] = <<>>
                   /\ ppc'[p] = "done"
                   /\ out'[p].msg = "No results found."
                   /\ progressFile' = progressFile]_vars

\* C22 witness: an instance has exited on a missing catalog, beside a
\* progress file that holds a record.
C22_Witness ==
    /\ ~catalogExists
    /\ ppc[1] = "exited"
    /\ diag[1] = "Error: Catalog not found. Run 'dlm-catalog'"
    /\ progressFile = Stored(1 :> EarlierRecord)

\* C24: a failure of the note export after a successful open does not abort
\* the session: an instance whose open returned True is never left ended by
\* an uncaught error.
C24_ExportFailureContinues ==
    \A p \in Procs : ret[p] = "True" => ppc[p] # "crashed"

\* C29: in loop mode the session ends only when the user makes no selection
\* or the search finds nothing (or the catalog is missing, C22), and every
\* selection is followed by another search; with a query or --set-page the
\* search is never run a second time.
C29_LoopSemantics ==
    [][\A p \in Procs :
         /\ (mode[p] = "loop" /\ ppc'[p] # ppc[p]
                /\ ppc'[p] \in {"done", "crashed"}) =>
               \/ ppc[p] = "prompt" /\ cancelled'[p]
               \/ ppc[p] = "main" /\ found'[p] = <<>>
         /\ (mode[p] = "once" /\ ppc[p] # "main") => ppc'[p] # "main"]_vars

\* C23: a user-input error is never fatal and changes nothing. A round of
\* search.py's selection loop on 'q' ends the loop with nothing opened; on an
\* ordinal of the list it ends the loop having opened at most the result at
\* that position; on anything else it says so, opens nothing and asks again.
\* A page argument that is not a number ends --set-page and --update-page
\* with a message, never with an unhandled exception, and the progress file
\* is as before.
C23_InputErrorsNotFatal ==
    [][\A p \in Procs :
         /\ (ppc[p] = "choose" /\ choice' # choice) =>
               LET t == Strip(choice')
                   n == IntOf(t)
               IN  IF Lower(t) = <<"q">>
                   THEN ppc'[p] = "done" /\ legacyOpened' = legacyOpened
                   ELSE IF IsDigit(Strip(t)) /\ 1 <= n /\ n <= Len(found[p])
                        THEN /\ ppc'[p] = "done"
                             /\ legacyOpened' \in
                                   {legacyOpened, Append(legacyOpened, found[p][n].id)}
                        ELSE /\ ppc'[p] = "choose"
                             /\ out'[p].msg # ""
                             /\ legacyOpened' = legacyOpened
                             /\ progressFile' = progressFile
         /\ (ppc[p] = "args" /\ ppc'[p] # "args" /\ ~IsDigit(Strip(pageArg[p]))) =>
               /\ ppc'[p] = "done"
               /\ out'[p].msg # ""
               /\ progressFile' = progressFile]_vars

\* the text of a line before its first tab, and after it
LineId(l) ==
    SubSeq(l, 1, (CHOOSE k \in 1..Len(l) :
                     l[k] = "\t" /\ \A j \in 1..(k - 1) : l[j] # "\t") - 1)

LineLabel(l) == SubSeq(l, Len(LineId(l)) + 2, Len(l))

UniqueIds(es) ==
    \A i, j \in 1..Len(es) : es[i].id = es[j].id => i = j

\* C25: run_fzf_search hands fzf one line per candidate, in the order of the
\* list, each the candidate's id, a tab and its label; on a selection it
\* returns a candidate with the id of the selected line, which is the
\* candidate at that line's position when the ids are unique; without a
\* selection, or without candidates, it returns None.
C25_LinesAndResolution ==
    /\ fpc \in {"fzf", "returned"} /\ entries # <<>> =>
          /\ Len(fzf_lines) = Len(entries)
          /\ \A i \in 1..Len(entries) :
                /\ LineId(fzf_lines[i]) = entries[i].id
                /\ LineLabel(fzf_lines[i]) = format_entry_for_fzf(entries[i])
    /\ fpc = "returned" =>
          /\ (picked = 0 \/ entries = <<>>) => returned = None
          /\ picked > 0 =>
                /\ returned # None
                /\ \E i \in 1..Len(entries) : returned[1] = entries[i]
                /\ returned[1].id = entries[picked].id
                /\ UniqueIds(entries) => returned[1] = entries[picked]

\* C25 witness: of three candidates with distinct ids the second line, whose
\* title and author are cut, was selected and the second candidate returned.
C25_Witness ==
    /\ fpc = "returned"
    /\ Len(entries) = 3
    /\ UniqueIds(entries)
    /\ picked = 2
    /\ entries[2].title = Some(LongTitle)
    /\ SubSeq(LineLabel(fzf_lines[2]), 1, TitleWidth + 2) =
          Take(LongTitle, TitleWidth) \o <<" ", "(">>
    /\ returned = Some(entries[2])

\* C26: in the catalog of one run of generate_catalog no two entries have the
\* same id and no two have the same file_path.
C26_IdsAndPathsDistinct ==
    generated # None =>
        \A i, j \in 1..Len(generated[1]) :
            i # j => /\ generated[1][i].id # generated[1][j].id
                     /\ generated[1][i].file_path # generated[1][j].file_path

\* C26 witness: a catalog of at least three entries, two of one category
\* with the same file name in different directories, and one of another.
C26_Witness ==
    /\ generated # None
    /\ Len(generated[1]) >= 3
    /\ \E i, j, k \in 1..Len(generated[1]) :
          /\ i # j
          /\ SubSeq(generated[1][i].id, 1, 3) = SubSeq(generated[1][j].id, 1, 3)
          /\ SubSeq(generated[1][k].id, 1, 2) = <<"M", "y">>
          /\ \E f, g \in library :
                /\ f.name = g.name /\ f.cat = g.cat /\ f.dir # g.dir
                /\ RelativePath(f) = generated[1][i].file_path
                /\ RelativePath(g) = generated[1][j].file_path

\* C27: a file catalogued by the run before has the same id in the catalog
\* of the latest run, whatever files were added in between.
C27_IdsStable ==
    (previous # None /\ generated # None) =>
        \A i \in 1..Len(previous[1]) : \A j \in 1..Len(generated[1]) :
            previous[1][i].file_path = generated[1][j].file_path =>
                previous[1][i].id = generated[1][j].id

\* C30: after a call of filter_catalog, whatever its options and whether it
\* returned or load_progress raised, the list it was given holds the entries
\* it held at the call, in the same order.
C30_InputNotMutated ==
    flpc \in {"returned", "raised"} => listArg = listGiven

\* C30 witness: a call with recent set and no other filter returned at least
\* two entries in an order that differs from their order in the list given,
\* which is as it was.
C30_Witness ==
    /\ flpc = "returned"
    /\ options.recent /\ options.ddc = None /\ options.file_type = None
    /\ Len(filtered) >= 2
    /\ Len(filtered) = Len(listGiven)
    /\ filtered # listGiven
    /\ listArg = listGiven

====
